---- MODULE Spec2Model ----
(***************************************************************************)
(* Verification model of the Spatial Audio Upmixer (stereo -> 7.1.4).      *)
(*                                                                         *)
(* Number representation.  The program computes on 64-bit floats; the      *)
(* model computes on integers in fixed point:                              *)
(*   - preset gains, blends and analysis ratios are in hundredths          *)
(*     (0.65 is 65), delays in hundredths of a millisecond (15.0 ms is     *)
(*     1500), levels in hundredths of a dB (-1.0 dBFS is -100);            *)
(*   - audio samples are in thousandths of full scale (1.0 is 1000);       *)
(*   - every product of a sample with a coefficient is rounded to the      *)
(*     nearest thousandth (RoundDiv), as a float product is rounded to     *)
(*     the nearest representable value.                                    *)
(***************************************************************************)
EXTENDS Integers, Sequences, FiniteSets, TLC

VARIABLES
    heap,       \* preset objects of the process: reference -> field record
    quality,    \* quality key (or "custom") of the last adapt_preset call
    baseval,    \* field values the base preset had when that call began
    analysis,   \* measurement record passed to that call
    tuned,      \* field values of the preset that call returned
    apc,        \* "idle" between tracks, "adapted" once a preset is tuned
    dop,        \* DSP operation last called ("idle" when none)
    din,        \* its arguments
    dout,       \* its locals and result
    mpc,        \* position inside mix_to_714 ("idle" outside a call)
    stems,      \* argument stems of the call
    preset,     \* argument preset of the call
    xo_lfe,     \* local: the 80 Hz crossover
    xo_height,  \* local: the 500 Hz crossover
    decorr,     \* local: the decorrelation bank
    output,     \* local: the output buffer
    ret,        \* what the call returned (or the error it raised)
    calls,      \* calls of mix_to_714 made so far in this process
    first,      \* locals and result of the first call, kept for comparison
    os_entropy, \* what the OS entropy source yields at the next read
    added,      \* what the call did to the output buffer so far, in order
    rpc,        \* position inside main / process_file ("idle" before main)
    rmode,      \* "batch" when args.input is a directory, else "single"
    listing,    \* os.listdir(args.input): the names in the directory
    files,      \* the files main processes, in processing order
    idx,        \* position of the batch loop in files (1-based)
    fmt,        \* args.format
    save_wav,   \* args.save_wav
    mixed,      \* the current track reached the encoding step
    tried,      \* outputs whose encoder was called for the current track
    e714,       \* what the last encode_714 call met and did
    attempted,  \* the files process_file was called on, in call order
    reported,   \* the files whose failure the batch loop printed
    processing, \* App._processing
    btn_convert,\* state of the Start Conversion button
    threads,    \* the worker threads started so far, each with its position
    after_queue,\* callbacks posted with after(0, ...), not yet run
    arrays,     \* the ndarray objects of the process: reference -> buffer
    given,      \* the value the 7.1.4 buffer had when mix_to_714 returned it
    tmp_dirs,   \* the temporary directories made so far
    frame,      \* the call in progress: operation, position, locals
    finished    \* how each finished call ended and what it wrote

adaptVars == <<heap, quality, baseval, analysis, tuned, apc>>

dspVars == <<dop, din, dout>>

mixVars == <<mpc, stems, preset, xo_lfe, xo_height, decorr, output, ret,
             calls, first, os_entropy, added>>

runVars == <<rpc, rmode, listing, files, idx, fmt, save_wav, mixed, tried,
             e714, attempted, reported>>

guiVars == <<processing, btn_convert, threads, after_queue>>

ioVars == <<arrays, given, tmp_dirs, frame, finished>>

vars == <<heap, quality, baseval, analysis, tuned, apc, dop, din, dout,
          mpc, stems, preset, xo_lfe, xo_height, decorr, output, ret,
          calls, first, os_entropy, added,
          rpc, rmode, listing, files, idx, fmt, save_wav, mixed, tried,
          e714, attempted, reported,
          processing, btn_convert, threads, after_queue,
          arrays, given, tmp_dirs, frame, finished>>

\* What the actions of one part of the program leave alone.
notAdapt == <<dspVars, mixVars, runVars, guiVars, ioVars>>

notDsp == <<adaptVars, mixVars, runVars, guiVars, ioVars>>

notMix == <<adaptVars, dspVars, runVars, guiVars, ioVars>>

notRun == <<adaptVars, dspVars, mixVars, guiVars, ioVars>>

notGui == <<adaptVars, dspVars, mixVars, runVars, ioVars>>

notIo == <<adaptVars, dspVars, mixVars, runVars, guiVars>>

\* No DSP call in progress.
DspIdle ==
    /\ dop = "idle"
    /\ din = <<>>
    /\ dout = <<>>

\* No mix_to_714 call made yet.
MixIdle ==
    /\ mpc = "idle"
    /\ stems = <<>>
    /\ preset = <<>>
    /\ xo_lfe = <<>>
    /\ xo_height = <<>>
    /\ decorr = <<>>
    /\ output = <<>>
    /\ ret = <<>>
    /\ calls = 0
    /\ first = <<>>
    /\ os_entropy = 0
    /\ added = <<>>

\* App.__init__ has run: nothing converts, the button waits for a selection.
GuiIdle ==
    /\ processing = FALSE
    /\ btn_convert = "disabled"
    /\ threads = <<>>
    /\ after_queue = <<>>

\* No file content / the content of a written file.
NoData == [some |-> FALSE, data |-> <<>>]

File(data) == [some |-> TRUE, data |-> data]

\* Nothing in flight / what a call is about to leave with.
NoPending == [kind |-> "none", value |-> "none"]

Pending(kind, value) == [kind |-> kind, value |-> value]

\* No call in progress.
NoFrame == [op |-> "none", pc |-> "idle", dir |-> 0, audio |-> 0, data |-> 0, tmp_wav |-> NoData, out |-> NoData, body |-> NoPending, pending |-> NoPending]

\* No buffer mixed yet, no call in progress.
IoIdle ==
    /\ arrays = <<>>
    /\ given = <<>>
    /\ tmp_dirs = <<>>
    /\ frame = NoFrame
    /\ finished = <<>>

\* main has not started.
RunIdle ==
    /\ rpc = "idle"
    /\ rmode = "batch"
    /\ listing = {}
    /\ files = <<>>
    /\ idx = 1
    /\ fmt = "7.1.4"
    /\ save_wav = FALSE
    /\ mixed = FALSE
    /\ tried = {}
    /\ e714 = [ffmpeg |-> "not_run", file |-> "none", returned |-> FALSE]
    /\ attempted = <<>>
    /\ reported = {}

----------------------------------------------------------------------------
(* Arithmetic helpers                                                      *)

Min(a, b) == IF a <= b THEN a ELSE b

Max(a, b) == IF a >= b THEN a ELSE b

Abs(a) == IF a >= 0 THEN a ELSE -a

SetMax(S) == CHOOSE m \in S : \A x \in S : x <= m

----------------------------------------------------------------------------
(* config.py: MixPreset and the three shipped presets                      *)

FIR_TAPS == 511

DECORR_ALLPASS_STAGES == 10

MixPreset ==
    [ vocal_center_gain   |-> 90,
      vocal_width_bleed   |-> 12,
      bass_lfe_gain       |-> 80,
      bass_center_gain    |-> 70,
      drum_front_gain     |-> 85,
      drum_lfe_gain       |-> 60,
      drum_height_bleed   |-> 8,
      other_side_gain     |-> 65,
      other_rear_gain     |-> 40,
      other_height_gain   |-> 22,
      other_front_bleed   |-> 15,
      surround_delay_ms   |-> 1500,
      rear_extra_delay_ms |-> 800,
      target_peak_dbfs    |-> -100,
      fir_taps            |-> FIR_TAPS,
      decorr_stages       |-> DECORR_ALLPASS_STAGES ]

PRESET_LOW == [MixPreset EXCEPT !.fir_taps = 255, !.decorr_stages = 6]

PRESET_MEDIUM == MixPreset

PRESET_HIGH ==
    [MixPreset EXCEPT !.fir_taps = 1023, !.decorr_stages = 14,
                      !.vocal_center_gain = 88, !.other_height_gain = 25]

\* The module-level preset objects live at references 1, 2, 3.
PRESETS == [low |-> 1, medium |-> 2, high |-> 3]

Qualities == {"low", "medium", "high"}

ModuleHeap == (1 :> PRESET_LOW) @@ (2 :> PRESET_MEDIUM) @@ (3 :> PRESET_HIGH)

----------------------------------------------------------------------------
(* analyzer.py: adapt_preset, on a heap of preset objects                  *)

\* p.<field> = value
Assign(h, p, f, v) == [h EXCEPT ![p][f] = v]

\* A mutant of replace: no copy is made, the base object itself is returned.
replace_alias(h, obj) == [heap |-> h, ref |-> obj]

\* dataclasses.replace(base): a new object with the fields of obj.
replace(h, obj) ==
    LET r == SetMax(DOMAIN h) + 1
    IN  [heap |-> h @@ (r :> h[obj]), ref |-> r]

\* A mutant of AdaptBass: the low-bass branch forgets its lower clamp.
AdaptBass_noclamp(h, p, a) ==
    IF a.bass_energy_ratio > 30 THEN
        LET h1 == Assign(h, p, "bass_lfe_gain", Min(h[p].bass_lfe_gain + 10, 100))
        IN  Assign(h1, p, "bass_center_gain", Max(h1[p].bass_center_gain - 5, 50))
    ELSE IF a.bass_energy_ratio < 15 THEN
        LET h1 == Assign(h, p, "bass_lfe_gain", h[p].bass_lfe_gain - 10)
        IN  Assign(h1, p, "bass_center_gain", Min(h1[p].bass_center_gain + 5, 85))
    ELSE h

\* Bass-heavy material -> boost LFE, reduce bass in center.
AdaptBass(h, p, a) ==
    IF a.bass_energy_ratio > 30 THEN
        LET h1 == Assign(h, p, "bass_lfe_gain", Min(h[p].bass_lfe_gain + 10, 100))
        IN  Assign(h1, p, "bass_center_gain", Max(h1[p].bass_center_gain - 5, 50))
    ELSE IF a.bass_energy_ratio < 15 THEN
        LET h1 == Assign(h, p, "bass_lfe_gain", Max(h[p].bass_lfe_gain - 10, 40))
        IN  Assign(h1, p, "bass_center_gain", Min(h1[p].bass_center_gain + 5, 85))
    ELSE h

\* Bright material -> more height channel content.
AdaptBrightness(h, p, a) ==
    IF a.spectral_centroid_hz > 3500 THEN
        LET h1 == Assign(h, p, "other_height_gain", Min(h[p].other_height_gain + 6, 35))
        IN  Assign(h1, p, "drum_height_bleed", Min(h1[p].drum_height_bleed + 4, 15))
    ELSE IF a.spectral_centroid_hz < 1200 THEN
        Assign(h, p, "other_height_gain", Max(h[p].other_height_gain - 5, 10))
    ELSE h

\* Transient-rich -> less decorrelation bleed; smooth -> more immersion.
AdaptTransients(h, p, a) ==
    IF a.transient_density > 20 THEN
        LET h1 == Assign(h, p, "drum_height_bleed", Max(h[p].drum_height_bleed - 3, 3))
        IN  Assign(h1, p, "surround_delay_ms", Max(h1[p].surround_delay_ms - 300, 800))
    ELSE IF a.transient_density < 5 THEN
        LET h1 == Assign(h, p, "other_side_gain", Min(h[p].other_side_gain + 8, 80))
            h2 == Assign(h1, p, "other_rear_gain", Min(h1[p].other_rear_gain + 6, 55))
        IN  Assign(h2, p, "surround_delay_ms", Min(h2[p].surround_delay_ms + 400, 2500))
    ELSE h

\* A mutant of AdaptWidth: the wide-stereo row adds 0.06 to other_rear_gain.
AdaptWidth_delta(h, p, a) ==
    IF a.stereo_width > 45 THEN
        LET h1 == Assign(h, p, "other_side_gain", Min(h[p].other_side_gain + 5, 80))
            h2 == Assign(h1, p, "other_rear_gain", Min(h1[p].other_rear_gain + 6, 55))
        IN  Assign(h2, p, "vocal_width_bleed", Min(h2[p].vocal_width_bleed + 3, 20))
    ELSE IF a.stereo_width < 10 THEN
        LET h1 == Assign(h, p, "other_side_gain", Max(h[p].other_side_gain - 8, 40))
        IN  Assign(h1, p, "other_rear_gain", Max(h1[p].other_rear_gain - 5, 25))
    ELSE h

\* Wide stereo -> more surround spread; very mono -> conservative surround.
AdaptWidth(h, p, a) ==
    IF a.stereo_width > 45 THEN
        LET h1 == Assign(h, p, "other_side_gain", Min(h[p].other_side_gain + 5, 80))
            h2 == Assign(h1, p, "other_rear_gain", Min(h1[p].other_rear_gain + 4, 55))
        IN  Assign(h2, p, "vocal_width_bleed", Min(h2[p].vocal_width_bleed + 3, 20))
    ELSE IF a.stereo_width < 10 THEN
        LET h1 == Assign(h, p, "other_side_gain", Max(h[p].other_side_gain - 8, 40))
        IN  Assign(h1, p, "other_rear_gain", Max(h1[p].other_rear_gain - 5, 25))
    ELSE h

\* Compressed / loud material -> slightly lower peak target.
AdaptDynamics(h, p, a) ==
    IF a.dynamic_range_db < 1200 THEN Assign(h, p, "target_peak_dbfs", -150)
    ELSE IF a.dynamic_range_db > 3000 THEN Assign(h, p, "target_peak_dbfs", -50)
    ELSE h

\* adapt_preset(base, analysis): returns the heap after the call and the
\* reference of the returned preset.
adapt_preset(h, base, a) ==
    LET c  == replace(h, base)
        p  == c.ref
        h1 == AdaptBass(c.heap, p, a)
        h2 == AdaptBrightness(h1, p, a)
        h3 == AdaptTransients(h2, p, a)
        h4 == AdaptWidth(h3, p, a)
        h5 == AdaptDynamics(h4, p, a)
    IN  [heap |-> h5, ref |-> p]

----------------------------------------------------------------------------
(* Inputs of the preset adapter                                            *)

\* Measurement records: every field takes values on both sides of, and on,
\* the thresholds adapt_preset compares it with.
Analyses ==
    [ spectral_centroid_hz : {1199, 1200, 3500, 3501},
      bass_energy_ratio    : {14, 15, 30, 31},
      transient_density    : {4, 5, 20, 21},
      stereo_width         : {9, 10, 45, 46},
      dynamic_range_db     : {1199, 3000, 3001} ]

\* Presets a caller can construct besides the shipped ones (MixPreset takes
\* any field values): at the lower clamp values, at the upper clamp values,
\* just inside the upper clamps, below every lower clamp, above every upper
\* clamp.
CustomBases ==
    { [MixPreset EXCEPT !.bass_lfe_gain = 40, !.bass_center_gain = 50,
                        !.other_height_gain = 10, !.drum_height_bleed = 3,
                        !.surround_delay_ms = 800, !.other_side_gain = 40,
                        !.other_rear_gain = 25, !.vocal_width_bleed = 0],
      [MixPreset EXCEPT !.bass_lfe_gain = 100, !.bass_center_gain = 85,
                        !.other_height_gain = 35, !.drum_height_bleed = 15,
                        !.surround_delay_ms = 2500, !.other_side_gain = 80,
                        !.other_rear_gain = 55, !.vocal_width_bleed = 20],
      [MixPreset EXCEPT !.bass_lfe_gain = 95, !.bass_center_gain = 83,
                        !.other_height_gain = 32, !.drum_height_bleed = 13,
                        !.surround_delay_ms = 2300, !.other_side_gain = 78,
                        !.other_rear_gain = 53, !.vocal_width_bleed = 19],
      [MixPreset EXCEPT !.bass_lfe_gain = 20, !.bass_center_gain = 30,
                        !.other_height_gain = 2, !.drum_height_bleed = 0,
                        !.surround_delay_ms = 200, !.other_side_gain = 20,
                        !.other_rear_gain = 10, !.vocal_width_bleed = 5],
      [MixPreset EXCEPT !.bass_lfe_gain = 120, !.bass_center_gain = 95,
                        !.other_height_gain = 50, !.drum_height_bleed = 30,
                        !.surround_delay_ms = 4000, !.other_side_gain = 95,
                        !.other_rear_gain = 70, !.vocal_width_bleed = 40] }

----------------------------------------------------------------------------
(* The preset adapter as a state machine: tracks processed one after the   *)
(* other by process_file, and direct calls with a caller-built preset.     *)

NoAnalysis == CHOOSE a \in Analyses : TRUE

AdaptIdle ==
    /\ heap = ModuleHeap
    /\ apc = "idle"
    /\ quality = "none"
    /\ baseval = MixPreset
    /\ analysis = NoAnalysis
    /\ tuned = MixPreset

AdaptInit == AdaptIdle /\ DspIdle /\ MixIdle /\ RunIdle /\ GuiIdle /\ IoIdle

\* main.py process_file, steps 1-2: base_preset = PRESETS[quality];
\* preset = adapt_preset(base_preset, analysis).  The tuned preset is a
\* local of process_file; the module-level objects outlive the call.
ProcessTrack(q, a) ==
    LET r == adapt_preset(heap, PRESETS[q], a)
    IN  /\ apc = "idle"
        /\ apc' = "adapted"
        /\ quality' = q
        /\ analysis' = a
        /\ baseval' = heap[PRESETS[q]]
        /\ tuned' = r.heap[r.ref]
        /\ heap' = [x \in DOMAIN ModuleHeap |-> r.heap[x]]
        /\ UNCHANGED notAdapt

\* adapt_preset(MixPreset(...), analysis) with a caller-built base.
AdaptCustom(b, a) ==
    LET b0 == SetMax(DOMAIN heap) + 1
        r  == adapt_preset(heap @@ (b0 :> b), b0, a)
    IN  /\ apc = "idle"
        /\ apc' = "adapted"
        /\ quality' = "custom"
        /\ analysis' = a
        /\ baseval' = b
        /\ tuned' = r.heap[r.ref]
        /\ heap' = [x \in DOMAIN ModuleHeap |-> r.heap[x]]
        /\ UNCHANGED notAdapt

\* The call's locals are dropped; the next track starts from the module
\* objects as the call left them.
TrackDone ==
    /\ apc = "adapted"
    /\ apc' = "idle"
    /\ quality' = "none"
    /\ baseval' = MixPreset
    /\ analysis' = NoAnalysis
    /\ tuned' = MixPreset
    /\ UNCHANGED heap
    /\ UNCHANGED notAdapt

AdaptNext ==
    \/ \E q \in Qualities, a \in Analyses : ProcessTrack(q, a)
    \/ \E b \in CustomBases, a \in Analyses : AdaptCustom(b, a)
    \/ TrackDone

SpecAdapt == AdaptInit /\ [][AdaptNext]_vars

----------------------------------------------------------------------------
(* Claims about the preset adapter (checked under SpecAdapt)               *)

\* The clamp intervals of the adjustment table.
InClampBounds(p) ==
    /\ p.bass_lfe_gain >= 40 /\ p.bass_lfe_gain <= 100
    /\ p.bass_center_gain >= 50 /\ p.bass_center_gain <= 85
    /\ p.other_height_gain >= 10 /\ p.other_height_gain <= 35
    /\ p.drum_height_bleed >= 3 /\ p.drum_height_bleed <= 15
    /\ p.surround_delay_ms >= 800 /\ p.surround_delay_ms <= 2500
    /\ p.other_side_gain >= 40 /\ p.other_side_gain <= 80
    /\ p.other_rear_gain >= 25 /\ p.other_rear_gain <= 55
    /\ p.vocal_width_bleed <= 20

\* C2 as stated: for ANY base preset and any measurement record, every field
\* of adapt_preset(base, m) lies within the clamp bounds of the table.
C2_AnyBaseInBounds == apc = "adapted" => InClampBounds(tuned)

\* C2 amended: for any base preset whose own fields lie within the clamp
\* bounds (the three shipped presets do) and any measurement record, every
\* field of adapt_preset(base, m) lies within the clamp bounds.
C2_BoundedBaseInBounds ==
    (apc = "adapted" /\ InClampBounds(baseval)) => InClampBounds(tuned)

\* A caller-built base on the lower clamps, light-bass material: the lower
\* clamp of bass_lfe_gain is what keeps the result in bounds.
C2_Witness ==
    /\ apc = "adapted"
    /\ quality = "custom"
    /\ InClampBounds(baseval)
    /\ baseval.bass_lfe_gain = 40
    /\ analysis.bass_energy_ratio < 15
    /\ tuned.bass_lfe_gain = 40

\* The ten rows of the adjustment table, each applied to a preset value.
Row1(p, a) ==
    IF a.bass_energy_ratio > 30
    THEN [p EXCEPT !.bass_lfe_gain = Min(@ + 10, 100),
                   !.bass_center_gain = Max(@ - 5, 50)]
    ELSE p

Row2(p, a) ==
    IF a.bass_energy_ratio < 15
    THEN [p EXCEPT !.bass_lfe_gain = Max(@ - 10, 40),
                   !.bass_center_gain = Min(@ + 5, 85)]
    ELSE p

Row3(p, a) ==
    IF a.spectral_centroid_hz > 3500
    THEN [p EXCEPT !.other_height_gain = Min(@ + 6, 35),
                   !.drum_height_bleed = Min(@ + 4, 15)]
    ELSE p

Row4(p, a) ==
    IF a.spectral_centroid_hz < 1200
    THEN [p EXCEPT !.other_height_gain = Max(@ - 5, 10)]
    ELSE p

Row5(p, a) ==
    IF a.transient_density > 20
    THEN [p EXCEPT !.drum_height_bleed = Max(@ - 3, 3),
                   !.surround_delay_ms = Max(@ - 300, 800)]
    ELSE p

Row6(p, a) ==
    IF a.transient_density < 5
    THEN [p EXCEPT !.other_side_gain = Min(@ + 8, 80),
                   !.other_rear_gain = Min(@ + 6, 55),
                   !.surround_delay_ms = Min(@ + 400, 2500)]
    ELSE p

\* Row 7 as the table prints it: no clamp on the two surround gains.
Row7Exact(p, a) ==
    IF a.stereo_width > 45
    THEN [p EXCEPT !.other_side_gain = @ + 5,
                   !.other_rear_gain = @ + 4,
                   !.vocal_width_bleed = Min(@ + 3, 20)]
    ELSE p

\* Row 7 with the clamps row 6 states for the same fields.
Row7Clamped(p, a) ==
    IF a.stereo_width > 45
    THEN [p EXCEPT !.other_side_gain = Min(@ + 5, 80),
                   !.other_rear_gain = Min(@ + 4, 55),
                   !.vocal_width_bleed = Min(@ + 3, 20)]
    ELSE p

Row8(p, a) ==
    IF a.stereo_width < 10
    THEN [p EXCEPT !.other_side_gain = Max(@ - 8, 40),
                   !.other_rear_gain = Max(@ - 5, 25)]
    ELSE p

Row9(p, a) ==
    IF a.dynamic_range_db < 1200 THEN [p EXCEPT !.target_peak_dbfs = -150] ELSE p

Row10(p, a) ==
    IF a.dynamic_range_db > 3000 THEN [p EXCEPT !.target_peak_dbfs = -50] ELSE p

TableRows1to6(p, a) ==
    Row6(Row5(Row4(Row3(Row2(Row1(p, a), a), a), a), a), a)

TableExact(p, a) ==
    Row10(Row9(Row8(Row7Exact(TableRows1to6(p, a), a), a), a), a)

TableClamped(p, a) ==
    Row10(Row9(Row8(Row7Clamped(TableRows1to6(p, a), a), a), a), a)

\* C3 as stated: adapt_preset(base, m) is the ten table rows applied in
\* order to a copy of base, the stereo_width > 0.45 row adding exactly 0.05
\* to other_side_gain and 0.04 to other_rear_gain.
C3_TableExact == apc = "adapted" => tuned = TableExact(baseval, analysis)

\* C3 amended: adapt_preset(base, m) is the ten table rows applied in order
\* to a copy of base, rows stacking and every untouched field keeping the
\* base value, where the stereo_width > 0.45 row adds 0.05 to
\* other_side_gain clamped to <= 0.80 and 0.04 to other_rear_gain clamped
\* to <= 0.55.
C3_TableClamped == apc = "adapted" => tuned = TableClamped(baseval, analysis)

\* Wide-stereo material on a base with other_side_gain = 0.78: the row
\* fires and its clamp decides the result.
C3_Witness ==
    /\ apc = "adapted"
    /\ analysis.stereo_width > 45
    /\ baseval.other_side_gain = 78
    /\ tuned.other_side_gain = 80
    /\ tuned.vocal_center_gain = baseval.vocal_center_gain

\* C4: adapt_preset never modifies its base: after any sequence of tracks
\* the shared PRESET_LOW / PRESET_MEDIUM / PRESET_HIGH objects hold their
\* initial values, and the tuned preset of a track is the one the pristine
\* preset of its quality gives for that track's measurements.
C4_BaseNeverModified ==
    /\ \A q \in Qualities : heap[PRESETS[q]] = ModuleHeap[PRESETS[q]]
    /\ (apc = "adapted" /\ quality \in Qualities) =>
           /\ baseval = ModuleHeap[PRESETS[quality]]
           /\ tuned = TableClamped(ModuleHeap[PRESETS[quality]], analysis)

\* A track whose measurements made adapt_preset change a field.
C4_Witness ==
    /\ apc = "adapted"
    /\ quality \in Qualities
    /\ tuned # baseval
    /\ heap[PRESETS[quality]] = baseval

----------------------------------------------------------------------------
(* Fixed-point arithmetic and buffers                                      *)
(*                                                                         *)
(* A mono signal (N,) is a sequence of N samples; a buffer (N, C) is a     *)
(* function from the channel index 0..C-1 to its column, a sequence of N   *)
(* samples.                                                                *)

\* a / b rounded to the nearest integer, ties away from zero (b > 0).
RoundDiv(a, b) ==
    IF a >= 0 THEN (2 * a + b) \div (2 * b)
    ELSE -((2 * (-a) + b) \div (2 * b))

\* a / b rounded to the nearest integer, ties to even (a >= 0, b > 0):
\* Python's round().
RoundHalfEven(a, b) ==
    LET q == a \div b
        r == a % b
    IN  IF 2 * r < b THEN q
        ELSE IF 2 * r > b THEN q + 1
        ELSE IF q % 2 = 0 THEN q ELSE q + 1

Zeros(n) == [i \in 1..n |-> 0]

SeqAdd(a, b) == [i \in 1..Len(a) |-> a[i] + b[i]]

SeqNeg(a) == [i \in 1..Len(a) |-> -a[i]]

\* x * g for a gain g in hundredths.
Scale(x, g) == [i \in 1..Len(x) |-> RoundDiv(x[i] * g, 100)]

\* np.zeros((n, c))
ZeroBuffer(n, c) == [ch \in 0..(c - 1) |-> Zeros(n)]

\* x.shape of a buffer
Shape(x) == <<Len(x[0]), Cardinality(DOMAIN x)>>

\* All samples of a buffer
Samples(x) == {x[ch][i] : ch \in DOMAIN x, i \in 1..Len(x[0])}

----------------------------------------------------------------------------
(* dsp/utils.py                                                            *)

to_mono(x) == [i \in 1..Len(x[0]) |-> RoundDiv(x[0][i] + x[1][i], 2)]

mid_side(x) ==
    [ mid  |-> [i \in 1..Len(x[0]) |-> RoundDiv(x[0][i] + x[1][i], 2)],
      side |-> [i \in 1..Len(x[0]) |-> RoundDiv(x[0][i] - x[1][i], 2)] ]

get_left(x) == x[0]

get_right(x) == x[1]

\* 10 ** (db / 20), in thousandths, for db in hundredths of a dB: tabulated
\* at the levels the model uses.
db_to_linear(db) ==
    CASE db = 0    -> 1000
      [] db = -50  -> 944
      [] db = -100 -> 891
      [] db = -150 -> 841
      [] db = -600 -> 501

\* np.max(np.abs(x)): defined on a buffer with at least one sample; numpy
\* raises ValueError on a zero-size array.
\* A mutant of np_max_abs: the peak of the first channel alone.
np_max_abs_first_channel(x) == SetMax({Abs(x[0][i]) : i \in 1..Len(x[0])})

np_max_abs(x) == SetMax({Abs(v) : v \in Samples(x)})

np_max_raises(x) == Samples(x) = {}

\* A mutant of peak_normalize: each channel is scaled by its own peak.
peak_normalize_per_channel(x, target_dbfs) ==
    [ch \in DOMAIN x |->
        LET pk == SetMax({Abs(x[ch][i]) : i \in 1..Len(x[ch])})
        IN  IF pk = 0 THEN x[ch]
            ELSE [i \in 1..Len(x[ch]) |->
                     RoundDiv(x[ch][i] * db_to_linear(target_dbfs), pk)]]

\* peak_normalize(x, target_dbfs) on a buffer with at least one sample.  A
\* peak below 1e-10 is a peak of 0 at the model's resolution.
peak_normalize(x, target_dbfs) ==
    LET peak == np_max_abs(x)
    IN  IF peak = 0 THEN x
        ELSE LET target_amp == db_to_linear(target_dbfs)
             IN  [ch \in DOMAIN x |->
                    [i \in 1..Len(x[ch]) |->
                        RoundDiv(x[ch][i] * target_amp, peak)]]

\* 1000 * tanh(j / 5) for j = 0..20 (index j + 1); tanh is taken linear
\* between grid points and constant beyond 4.
TanhTable ==
    <<0, 197, 380, 537, 664, 762, 834, 885, 922, 947, 964,
      976, 984, 989, 993, 995, 997, 998, 998, 999, 999>>

\* 1000 * tanh(num / den), num >= 0, den > 0.
TanhMilli(num, den) ==
    LET j == (5 * num) \div den
        r == (5 * num) % den
    IN  IF j >= 20 THEN TanhTable[21]
        ELSE TanhTable[j + 1]
             + RoundDiv((TanhTable[j + 2] - TanhTable[j + 1]) * r, den)

\* One sample of soft_clip; threshold in thousandths.
SoftClipSample(v, threshold) ==
    IF Abs(v) > threshold THEN
        LET saturated ==
                threshold
                + RoundDiv((1000 - threshold)
                           * TanhMilli(Abs(v) - threshold, 1000 - threshold),
                           1000)
        IN  IF v > 0 THEN saturated ELSE -saturated
    ELSE v

\* soft_clip as a limiter: once a sample exceeds the threshold, the whole
\* buffer is scaled down by threshold / 1.0.
soft_clip_scaled(x, threshold) ==
    IF \E ch \in DOMAIN x : \E i \in 1..Len(x[ch]) : Abs(x[ch][i]) > threshold
    THEN [ch \in DOMAIN x |->
            [i \in 1..Len(x[ch]) |-> RoundDiv(x[ch][i] * threshold, 1000)]]
    ELSE x

soft_clip(x, threshold) ==
    [ch \in DOMAIN x |->
        [i \in 1..Len(x[ch]) |-> SoftClipSample(x[ch][i], threshold)]]

\* A mutant of apply_delay: the samples are rotated (np.roll), so the late
\* samples wrap to the front instead of being dropped.
apply_delay_roll(x, delay_ms, sample_rate) ==
    LET d == RoundHalfEven(Max(delay_ms, 0) * sample_rate, 100000)
    IN  IF Len(x) = 0 THEN x
        ELSE [i \in 1..Len(x) |-> x[((i - 1 - d) % Len(x)) + 1]]

\* apply_delay(x, delay_ms, sample_rate), delay_ms in hundredths of a ms.
apply_delay(x, delay_ms, sample_rate) ==
    LET delay_samples ==
            IF delay_ms >= 0
            THEN RoundHalfEven(delay_ms * sample_rate, 100000)
            ELSE -RoundHalfEven((-delay_ms) * sample_rate, 100000)
    IN  IF delay_samples <= 0 THEN x
        ELSE [i \in 1..Len(x) |->
                 IF i <= delay_samples THEN 0 ELSE x[i - delay_samples]]

----------------------------------------------------------------------------
(* dsp/crossover.py                                                        *)

\* scipy.signal.firwin(num_taps, cutoff_hz, fs, pass_zero=True,
\* window="hann"), taps in twelfths (index 1 is tap 0).  For the cutoffs of
\* the program (80 Hz, 500 Hz) at audio sample rates and these lengths the
\* sinc factor is 1 to three decimals, so the taps are the Hann window
\* normalised to unit DC gain.
firwin(num_taps, cutoff_hz, fs) ==
    CASE num_taps = 1 -> <<12>>
      [] num_taps = 3 -> <<0, 12, 0>>
      [] num_taps = 5 -> <<0, 3, 6, 3, 0>>
      [] num_taps = 7 -> <<0, 1, 3, 4, 3, 1, 0>>

\* A mutant of Crossover: the 1.0 of the spectral inversion is added one tap
\* late.
Crossover_offcentre(cutoff_hz, sample_rate, requested_taps) ==
    LET num_taps == IF requested_taps % 2 = 0
                    THEN requested_taps + 1 ELSE requested_taps
        group_delay == (num_taps - 1) \div 2
        lp == firwin(num_taps, cutoff_hz, sample_rate)
        at == Min(group_delay + 2, num_taps)
    IN  [ cutoff_hz |-> cutoff_hz, sample_rate |-> sample_rate,
          num_taps |-> num_taps, group_delay |-> group_delay,
          lp |-> lp,
          hp |-> [k \in 1..num_taps |->
                    IF k = at THEN -lp[k] + 12 ELSE -lp[k]] ]

\* Crossover.__init__ without the negation: the highpass is the lowpass with
\* 1.0 added to the centre tap.
Crossover_uninverted(cutoff_hz, sample_rate, requested_taps) ==
    LET num_taps == IF requested_taps % 2 = 0
                    THEN requested_taps + 1 ELSE requested_taps
        group_delay == (num_taps - 1) \div 2
        lp == firwin(num_taps, cutoff_hz, sample_rate)
    IN  [ cutoff_hz |-> cutoff_hz, sample_rate |-> sample_rate,
          num_taps |-> num_taps, group_delay |-> group_delay,
          lp |-> lp,
          hp |-> [k \in 1..num_taps |->
                    IF k = group_delay + 1 THEN lp[k] + 12 ELSE lp[k]] ]

\* Crossover.__init__
Crossover(cutoff_hz, sample_rate, requested_taps) ==
    LET num_taps == IF requested_taps % 2 = 0
                    THEN requested_taps + 1 ELSE requested_taps
        group_delay == (num_taps - 1) \div 2
        lp == firwin(num_taps, cutoff_hz, sample_rate)
    IN  [ cutoff_hz |-> cutoff_hz, sample_rate |-> sample_rate,
          num_taps |-> num_taps, group_delay |-> group_delay,
          lp |-> lp,
          hp |-> [k \in 1..num_taps |->
                    IF k = group_delay + 1 THEN -lp[k] + 12 ELSE -lp[k]] ]

RECURSIVE ConvSum(_, _, _, _)
\* sum over k = 0..kmax of fir[k] * x[i - k]  (0-based i, k)
ConvSum(fir, x, i, k) ==
    IF k < 0 THEN 0
    ELSE fir[k + 1] * x[i - k + 1] + ConvSum(fir, x, i, k - 1)

\* Crossover._apply on a mono signal: the full convolution trimmed to the
\* input length.
XoApply(fir, x) ==
    [i \in 1..Len(x) |->
        RoundDiv(ConvSum(fir, x, i - 1, Min(i - 1, Len(fir) - 1)), 12)]

lowpass(xo, x) == XoApply(xo.lp, x)

highpass(xo, x) == XoApply(xo.hp, x)

----------------------------------------------------------------------------
(* dsp/decorrelation.py                                                    *)

\* A mutant of default_rng: the seed is ignored (default_rng() unseeded).
default_rng_unseeded(seed, entropy) ==
    [state |-> ((entropy * 7919) % 65536) + 1]

\* np.random.default_rng(seed): a generator whose state is a function of
\* the seed alone.  The generator is modelled as a 16-bit Lehmer generator;
\* entropy is what numpy would draw from the OS were no seed given.
default_rng(seed, entropy) == [state |-> ((seed * 7919) % 65536) + 1]

\* One step of the generator.
RngStep(state) == (75 * state) % 65537

RECURSIVE RngStates(_, _)
\* The n successive states after `state`.
RngStates(state, n) ==
    IF n = 0 THEN <<>>
    ELSE <<RngStep(state)>> \o RngStates(RngStep(state), n - 1)

\* np.geomspace(min_freq, max_freq, n), in Hz, for the endpoints 300 and
\* 2000 of the program and up to four stages.
geomspace(min_freq, max_freq, n) ==
    CASE n = 0 -> <<>>
      [] n = 1 -> <<min_freq>>
      [] n = 2 -> <<min_freq, max_freq>>
      [] n = 3 -> <<min_freq, 775, max_freq>>
      [] n = 4 -> <<min_freq, 565, 1063, max_freq>>

\* One allpass biquad for centre frequency fc (Hz) and q (hundredths):
\* <<b0, b1, b2, a0, a1, a2>> in ten-thousandths, sin and cos by their
\* Taylor polynomials (w0 is below 0.33 rad at the rates of the model).
AllpassSection(fc, q, sample_rate) ==
    LET w0    == RoundDiv(62832 * fc, sample_rate)
        w2    == RoundDiv(w0 * w0, 10000)
        w3    == RoundDiv(w2 * w0, 10000)
        w4    == RoundDiv(w2 * w2, 10000)
        sinw  == w0 - RoundDiv(w3, 6)
        cosw  == 10000 - RoundDiv(w2, 2) + RoundDiv(w4, 24)
        alpha == RoundDiv(sinw * 100, 2 * q)
        a0    == 10000 + alpha
        b0    == 10000 - alpha
        b1    == -2 * cosw
    IN  << RoundDiv(b0 * 10000, a0), RoundDiv(b1 * 10000, a0), 10000,
           10000, RoundDiv(b1 * 10000, a0), RoundDiv(b0 * 10000, a0) >>

\* _make_allpass_sos(num_stages, sample_rate, rng, min_freq, max_freq):
\* the first num_stages draws jitter the frequencies by +-20 %, the next
\* num_stages draws give q in [0.3, 2.5].
make_allpass_sos(num_stages, sample_rate, rng, min_freq, max_freq) ==
    LET draws == RngStates(rng.state, 2 * num_stages)
        base  == geomspace(min_freq, max_freq, num_stages)
        freq(i) ==
            LET jittered == RoundDiv(base[i] * (800 + (400 * draws[i]) \div 65537), 1000)
            IN  Min(Max(jittered, 20), sample_rate \div 2 - 1)
        q(i) == 30 + (220 * draws[num_stages + i]) \div 65537
    IN  [i \in 1..num_stages |-> AllpassSection(freq(i), q(i), sample_rate)]

\* Decorrelator.__init__
Decorrelator(sample_rate, num_stages, seed, min_freq, max_freq, entropy) ==
    [ sample_rate |-> sample_rate,
      sos |-> make_allpass_sos(num_stages, sample_rate,
                               default_rng(seed, entropy),
                               min_freq, max_freq) ]

RECURSIVE BiquadRun(_, _, _, _, _)
\* One section of sosfilt (direct form II transposed, zero initial state)
\* from sample i on, with delay-line values z1, z2.
BiquadRun(s, x, i, z1, z2) ==
    IF i > Len(x) THEN <<>>
    ELSE LET y   == RoundDiv(s[1] * x[i], 10000) + z1
             nz1 == RoundDiv(s[2] * x[i], 10000) - RoundDiv(s[5] * y, 10000) + z2
             nz2 == RoundDiv(s[3] * x[i], 10000) - RoundDiv(s[6] * y, 10000)
         IN  <<y>> \o BiquadRun(s, x, i + 1, nz1, nz2)

RECURSIVE sosfilt_from(_, _, _)
\* The sections k.. of the cascade applied in order.
sosfilt_from(sos, x, k) ==
    IF k > Len(sos) THEN x
    ELSE sosfilt_from(sos, BiquadRun(sos[k], x, 1, 0, 0), k + 1)

\* scipy.signal.sosfilt(sos, x)
sosfilt(sos, x) == sosfilt_from(sos, x, 1)

\* Decorrelator.process
DecorrProcess(d, x) == sosfilt(d.sos, x)

\* Decorrelator.process_blended, blend in hundredths.
DecorrProcessBlended(d, x, blend) ==
    LET wet == DecorrProcess(d, x)
    IN  [i \in 1..Len(x) |->
            RoundDiv((100 - blend) * x[i], 100) + RoundDiv(blend * wet[i], 100)]

\* DecorrelationBank.__init__: decorrelator i (index i + 1) has seed
\* seed_base + i.
DecorrelationBank(sample_rate, num_channels, num_stages, seed_base, min_freq, max_freq, entropy) ==
    [i \in 1..num_channels |->
        Decorrelator(sample_rate, num_stages, seed_base + (i - 1),
                     min_freq, max_freq, entropy)]

\* DecorrelationBank.process_blended
process_blended(bank, x, channel, blend) ==
    DecorrProcessBlended(bank[channel + 1], x, blend)

----------------------------------------------------------------------------
(* config.py: channel layout and mixer constants                           *)

CHANNEL_COUNT_714 == 12

CHANNEL_COUNT_51 == 6

CH_FL == 0

CH_FR == 1

CH_FC == 2

CH_LFE == 3

CH_BL == 4

CH_BR == 5

CH_SL == 6

CH_SR == 7

CH_TFL == 8

CH_TFR == 9

CH_TBL == 10

CH_TBR == 11

SAMPLE_RATE == 48000

LFE_CROSSOVER_HZ == 80

HEIGHT_HIGHPASS_HZ == 500

DECORR_SEED_BASE == 42

DECORR_BLEND_SURROUND == 40

DECORR_BLEND_HEIGHT == 65

DECORR_MIN_FREQ == 300

DECORR_MAX_FREQ == 2000

----------------------------------------------------------------------------
(* mixer.py: downmix_714_to_51                                             *)

\* c * x for a coefficient c in thousandths.
Coef(c, x) == [i \in 1..Len(x) |-> RoundDiv(c * x[i], 1000)]

Sum3(a, b, c) == SeqAdd(SeqAdd(a, b), c)

Sum5(a, b, c, d, e) == SeqAdd(SeqAdd(SeqAdd(SeqAdd(a, b), c), d), e)

\* A mutant of DownmixMatrix: the top-front channels also feed the 5.1
\* surrounds.
DownmixMatrix_tfl(audio_714) ==
    (0 :> Sum5(audio_714[CH_FL], Coef(707, audio_714[CH_SL]),
               Coef(500, audio_714[CH_BL]), Coef(500, audio_714[CH_TFL]),
               Coef(350, audio_714[CH_TBL])))
    @@ (1 :> Sum5(audio_714[CH_FR], Coef(707, audio_714[CH_SR]),
                  Coef(500, audio_714[CH_BR]), Coef(500, audio_714[CH_TFR]),
                  Coef(350, audio_714[CH_TBR])))
    @@ (2 :> audio_714[CH_FC])
    @@ (3 :> audio_714[CH_LFE])
    @@ (4 :> Sum3(audio_714[CH_SL], Coef(707, audio_714[CH_BL]),
                  Coef(500, audio_714[CH_TFL])))
    @@ (5 :> Sum3(audio_714[CH_SR], Coef(707, audio_714[CH_BR]),
                  Coef(500, audio_714[CH_TFR])))

\* The matrix stage of downmix_714_to_51 (out before re-normalisation).
DownmixMatrix(audio_714) ==
    (0 :> Sum5(audio_714[CH_FL], Coef(707, audio_714[CH_SL]),
               Coef(500, audio_714[CH_BL]), Coef(500, audio_714[CH_TFL]),
               Coef(350, audio_714[CH_TBL])))
    @@ (1 :> Sum5(audio_714[CH_FR], Coef(707, audio_714[CH_SR]),
                  Coef(500, audio_714[CH_BR]), Coef(500, audio_714[CH_TFR]),
                  Coef(350, audio_714[CH_TBR])))
    @@ (2 :> audio_714[CH_FC])
    @@ (3 :> audio_714[CH_LFE])
    @@ (4 :> Sum3(audio_714[CH_SL], Coef(707, audio_714[CH_BL]),
                  Coef(500, audio_714[CH_TBL])))
    @@ (5 :> Sum3(audio_714[CH_SR], Coef(707, audio_714[CH_BR]),
                  Coef(500, audio_714[CH_TBR])))

\* downmix_714_to_51 on a buffer with at least one sample.
downmix_714_to_51(audio_714) == peak_normalize(DownmixMatrix(audio_714), -100)

----------------------------------------------------------------------------
(* The DSP operations called on their own: one call at a time, on inputs   *)
(* drawn from bounded families.                                            *)

\* Longest buffer of the model, in samples.
MaxLen == 3

SampleValues == {-1000, 0, 600}

\* Mono signals (N,) with N <= MaxLen.
MonoSignals == UNION {[1..n -> SampleValues] : n \in 0..MaxLen}

\* Stereo buffers (N, 2) with N <= MaxLen.
StereoBuffers == UNION {[0..1 -> [1..n -> SampleValues]] : n \in 0..MaxLen}

\* Stereo buffers for soft_clip: samples at the threshold, under it and over
\* it.
ClipBuffers == UNION {[0..1 -> [1..n -> {-1000, 950, 600}]] : n \in 0..MaxLen}

\* 7.1.4 buffers (N, 12): channel c1 holds a1 throughout, channel c2 has a2
\* added to its first sample, every other sample is zero.
HotBuffer(n, c1, a1, c2, a2) ==
    [ch \in 0..(CHANNEL_COUNT_714 - 1) |->
        [i \in 1..n |-> (IF ch = c1 THEN a1 ELSE 0)
                        + (IF ch = c2 /\ i = 1 THEN a2 ELSE 0)]]

Buffers714 ==
    {HotBuffer(n, c1, a1, c2, a2) :
        n \in 0..MaxLen, c1 \in 0..(CHANNEL_COUNT_714 - 1), a1 \in {1000, -600},
        c2 \in 0..(CHANNEL_COUNT_714 - 1), a2 \in {0, 800}}

\* xo = Crossover(cutoff_hz, SAMPLE_RATE, num_taps); xo.lowpass(x);
\* xo.highpass(x)
CallCrossover(x, cutoff_hz, num_taps) ==
    LET xo == Crossover(cutoff_hz, SAMPLE_RATE, num_taps)
    IN  /\ dop = "idle"
        /\ dop' = "crossover"
        /\ din' = [x |-> x, cutoff_hz |-> cutoff_hz, num_taps |-> num_taps,
                   n |-> Len(x)]
        /\ dout' = [xo |-> xo, low |-> lowpass(xo, x), high |-> highpass(xo, x)]
        /\ UNCHANGED notDsp

\* peak_normalize(x, target_dbfs); np.max raises on a zero-size buffer.
CallPeakNormalize(x, target_dbfs) ==
    /\ dop = "idle"
    /\ din' = [x |-> x, target_dbfs |-> target_dbfs, n |-> Len(x[0])]
    /\ IF np_max_raises(x)
       THEN dop' = "raised" /\ dout' = "ValueError"
       ELSE dop' = "peak_normalize" /\ dout' = peak_normalize(x, target_dbfs)
    /\ UNCHANGED notDsp

\* downmix_714_to_51(audio_714); the re-normalisation raises on a zero-size
\* buffer.
CallDownmix(audio_714) ==
    /\ dop = "idle"
    /\ din' = [audio_714 |-> audio_714, n |-> Len(audio_714[0])]
    /\ IF np_max_raises(DownmixMatrix(audio_714))
       THEN dop' = "raised" /\ dout' = "ValueError"
       ELSE /\ dop' = "downmix"
            /\ dout' = [out |-> DownmixMatrix(audio_714),
                        result |-> downmix_714_to_51(audio_714)]
    /\ UNCHANGED notDsp

\* apply_delay(x, delay_ms, sample_rate)
CallApplyDelay(x, delay_ms, sample_rate) ==
    /\ dop = "idle"
    /\ dop' = "apply_delay"
    /\ din' = [x |-> x, delay_ms |-> delay_ms, sample_rate |-> sample_rate,
               n |-> Len(x)]
    /\ dout' = apply_delay(x, delay_ms, sample_rate)
    /\ UNCHANGED notDsp

\* soft_clip(x, threshold)
CallSoftClip(x, threshold) ==
    /\ dop = "idle"
    /\ dop' = "soft_clip"
    /\ din' = [x |-> x, threshold |-> threshold, n |-> Len(x[0])]
    /\ dout' = soft_clip(x, threshold)
    /\ UNCHANGED notDsp

\* Decorrelator(SAMPLE_RATE, num_stages, seed).process(x)
CallDecorrelate(x, num_stages, seed) ==
    /\ dop = "idle"
    /\ dop' = "decorrelate"
    /\ din' = [x |-> x, num_stages |-> num_stages, seed |-> seed, n |-> Len(x)]
    /\ dout' = DecorrProcess(Decorrelator(SAMPLE_RATE, num_stages, seed,
                                          DECORR_MIN_FREQ, DECORR_MAX_FREQ, 0), x)
    /\ UNCHANGED notDsp

\* <<delay_ms, sample_rate>>: no delay, delays shorter and longer than the
\* buffer, a negative delay, and delays of 0.5, 1.5 and 2.5 samples.
DelayArgs ==
    { <<0, SAMPLE_RATE>>, <<2, SAMPLE_RATE>>, <<5, SAMPLE_RATE>>,
      <<10, SAMPLE_RATE>>, <<-100, SAMPLE_RATE>>,
      <<500, 100>>, <<1500, 100>>, <<2500, 100>> }

\* The call is over; its arguments and result are dropped.
DspReturn ==
    /\ dop # "idle"
    /\ dop' = "idle"
    /\ din' = <<>>
    /\ dout' = <<>>
    /\ UNCHANGED notDsp

DspInit == AdaptIdle /\ DspIdle /\ MixIdle /\ RunIdle /\ GuiIdle /\ IoIdle

DspNext ==
    \/ \E x \in MonoSignals, c \in {LFE_CROSSOVER_HZ, HEIGHT_HIGHPASS_HZ},
          t \in {1, 2, 4, 5, 6, 7} : CallCrossover(x, c, t)
    \/ \E x \in StereoBuffers, t \in {-50, -100, -600} : CallPeakNormalize(x, t)
    \/ \E b \in Buffers714 : CallDownmix(b)
    \/ \E x \in MonoSignals, d \in DelayArgs : CallApplyDelay(x, d[1], d[2])
    \/ \E x \in ClipBuffers : CallSoftClip(x, 950)
    \/ \E x \in MonoSignals, seed \in {DECORR_SEED_BASE, DECORR_SEED_BASE + 1} :
            CallDecorrelate(x, 2, seed)
    \/ DspReturn

SpecDsp == DspInit /\ [][DspNext]_vars

----------------------------------------------------------------------------
(* Claims about the DSP operations (checked under SpecDsp)                 *)

\* C6: for any input x and any Crossover xo, xo.lowpass(x) + xo.highpass(x)
\* is x shifted right by group_delay samples and truncated to len(x): the
\* first min(group_delay, len(x)) samples are zero and sample i is
\* x[i - group_delay] from there on, within one rounding step of the
\* arithmetic per sample.
C6_PerfectReconstruction ==
    dop = "crossover" =>
        LET x  == din.x
            gd == dout.xo.group_delay
        IN  /\ Len(dout.low) = Len(x)
            /\ Len(dout.high) = Len(x)
            /\ 2 * gd + 1 = dout.xo.num_taps
            /\ \A i \in 1..Len(x) :
                  Abs(dout.low[i] + dout.high[i]
                      - (IF i <= gd THEN 0 ELSE x[i - gd])) <= 1

\* An even tap request on a signal longer than the group delay whose first
\* sample is not zero: the delayed sample shows in the sum and the last
\* input samples are dropped.
C6_Witness ==
    /\ dop = "crossover"
    /\ din.num_taps = 4
    /\ dout.xo.group_delay = 2
    /\ Len(din.x) = 3
    /\ din.x[1] = 600
    /\ din.x[3] = -1000
    /\ dout.low[3] + dout.high[3] = 600
    /\ dout.high[2] # 0

\* The downmix matrix of the claim, one row per 5.1 channel.
C7_Matrix(a) ==
    [c \in 0..5 |->
        [i \in 1..Len(a[0]) |->
            CASE c = 0 -> a[CH_FL][i] + RoundDiv(707 * a[CH_SL][i], 1000)
                          + RoundDiv(500 * a[CH_BL][i], 1000)
                          + RoundDiv(500 * a[CH_TFL][i], 1000)
                          + RoundDiv(350 * a[CH_TBL][i], 1000)
              [] c = 1 -> a[CH_FR][i] + RoundDiv(707 * a[CH_SR][i], 1000)
                          + RoundDiv(500 * a[CH_BR][i], 1000)
                          + RoundDiv(500 * a[CH_TFR][i], 1000)
                          + RoundDiv(350 * a[CH_TBR][i], 1000)
              [] c = 2 -> a[CH_FC][i]
              [] c = 3 -> a[CH_LFE][i]
              [] c = 4 -> a[CH_SL][i] + RoundDiv(707 * a[CH_BL][i], 1000)
                          + RoundDiv(500 * a[CH_TBL][i], 1000)
              [] c = 5 -> a[CH_SR][i] + RoundDiv(707 * a[CH_BR][i], 1000)
                          + RoundDiv(500 * a[CH_TBR][i], 1000)]]

\* The peak of a buffer with at least one sample.
C7_Peak(b) == SetMax({Abs(b[c][i]) : c \in DOMAIN b, i \in 1..Len(b[0])})

\* C7: downmix_714_to_51 returns an (N, 6) buffer that is the fixed matrix
\* applied to the input, then peak-normalised to -1.0 dBFS (0.891); for an
\* input whose only non-zero channel is TFL = 1.0 the matrix stage gives
\* FL_51 = 0.5 and 0 on every other channel.
C7_DownmixMatrix ==
    dop = "downmix" =>
        LET a == din.audio_714
            m == C7_Matrix(a)
            n == Len(a[0])
        IN  /\ dout.out = m
            /\ Shape(dout.result) = <<n, 6>>
            /\ \A c \in 0..5 : \A i \in 1..n :
                  dout.result[c][i] =
                      IF C7_Peak(m) = 0 THEN m[c][i]
                      ELSE RoundDiv(m[c][i] * 891, C7_Peak(m))
            /\ (a = HotBuffer(n, CH_TFL, 1000, CH_TFL, 0)) =>
                  \A c \in 0..5 : \A i \in 1..n :
                      dout.out[c][i] = IF c = 0 THEN 500 ELSE 0

\* The boundary scenario: only TFL = 1.0; FL_51 is 0.5 after the matrix and
\* 0.891 after normalisation, SL_51 stays 0.
C7_Witness ==
    /\ dop = "downmix"
    /\ Len(din.audio_714[0]) = 2
    /\ din.audio_714 = HotBuffer(2, CH_TFL, 1000, CH_TFL, 0)
    /\ dout.out[0] = <<500, 500>>
    /\ dout.out[4] = <<0, 0>>
    /\ dout.result[0] = <<891, 891>>

\* C10: peak_normalize(x, target) returns x unchanged when max|x| is below
\* 1e-10 (0 at the model's resolution) and otherwise the whole multichannel
\* buffer scaled by the single factor 10^(target/20) / max|x|, so that
\* max|result| <= 10^(target/20).
C10_PeakNormalize ==
    dop = "peak_normalize" =>
        LET x    == din.x
            peak == C7_Peak(x)
            amp  == db_to_linear(din.target_dbfs)
        IN  /\ Shape(dout) = Shape(x)
            /\ peak = 0 => dout = x
            /\ peak > 0 =>
                  /\ \A c \in DOMAIN x : \A i \in 1..Len(x[c]) :
                        dout[c][i] = RoundDiv(x[c][i] * amp, peak)
                  /\ C7_Peak(dout) <= amp

\* A stereo buffer whose channels have different peaks, scaled as a whole.
C10_Witness ==
    /\ dop = "peak_normalize"
    /\ din.target_dbfs = -100
    /\ din.x = (0 :> <<600, 0>>) @@ (1 :> <<0, -1000>>)
    /\ dout = (0 :> <<535, 0>>) @@ (1 :> <<0, -891>>)

\* Silence is returned unchanged.
C10_WitnessSilence ==
    /\ dop = "peak_normalize"
    /\ Len(din.x[0]) = 2
    /\ \A v \in Samples(din.x) : v = 0
    /\ dout = din.x

----------------------------------------------------------------------------
(* mixer.py: mix_to_714                                                    *)

\* Decorrelator indices of the logical roles.
D_SL == 0

D_SR == 1

D_BL == 2

D_BR == 3

D_TFL == 4

D_TFR == 5

D_TBL == 6

D_TBR == 7

\* output[:, ch] += v
AddCh(out, ch, v) == [out EXCEPT ![ch] = SeqAdd(@, v)]

\* output = np.zeros((n_samples, CHANNEL_COUNT_714))
MixAlloc(st) == ZeroBuffer(Len(st.vocals[0]), CHANNEL_COUNT_714)

\* 1. VOCALS -> FC (primary) + subtle FL/FR width
RouteVocals(st, p, xl, bank, out) ==
    LET ms           == mid_side(st.vocals)
        vocal_center == Scale(highpass(xl, ms.mid), p.vocal_center_gain)
        vocal_side_l == Scale(ms.side, p.vocal_width_bleed)
        vocal_side_r == Scale(SeqNeg(ms.side), p.vocal_width_bleed)
        o1 == AddCh(out, CH_FC, vocal_center)
        o2 == AddCh(o1, CH_FL, process_blended(bank, vocal_side_l, D_SL, 30))
    IN  AddCh(o2, CH_FR, process_blended(bank, vocal_side_r, D_SR, 30))

\* A mutant of RouteBass: the bass body is also added to FL.
RouteBass_leak(st, p, xl, out) ==
    LET bass_mono == to_mono(st.bass)
        bass_sub  == Scale(lowpass(xl, bass_mono), p.bass_lfe_gain)
        bass_body == Scale(highpass(xl, bass_mono), p.bass_center_gain)
    IN  AddCh(AddCh(AddCh(out, CH_LFE, bass_sub), CH_FC, bass_body),
              CH_FL, bass_body)

\* 2. BASS -> FC (>80Hz) + LFE (<80Hz)
RouteBass(st, p, xl, out) ==
    LET bass_mono == to_mono(st.bass)
        bass_sub  == Scale(lowpass(xl, bass_mono), p.bass_lfe_gain)
        bass_body == Scale(highpass(xl, bass_mono), p.bass_center_gain)
    IN  AddCh(AddCh(out, CH_LFE, bass_sub), CH_FC, bass_body)

\* 3. DRUMS -> FL/FR (>80Hz) + LFE (kick sub) + TFL/TFR (shimmer)
RouteDrums(st, p, xl, xh, bank, out) ==
    LET drum_left  == get_left(st.drums)
        drum_right == get_right(st.drums)
        drum_mono  == to_mono(st.drums)
        kick_sub   == Scale(lowpass(xl, drum_mono), p.drum_lfe_gain)
        o1 == AddCh(out, CH_LFE, kick_sub)
        o2 == AddCh(o1, CH_FL, Scale(highpass(xl, drum_left), p.drum_front_gain))
        o3 == AddCh(o2, CH_FR, Scale(highpass(xl, drum_right), p.drum_front_gain))
    IN  IF p.drum_height_bleed > 1 THEN
            LET drum_hp == highpass(xh, drum_mono)
                o4 == AddCh(o3, CH_TFL,
                            process_blended(bank, Scale(drum_hp, p.drum_height_bleed),
                                            D_TFL, DECORR_BLEND_HEIGHT))
            IN  AddCh(o4, CH_TFR,
                      process_blended(bank, Scale(drum_hp, p.drum_height_bleed),
                                      D_TFR, DECORR_BLEND_HEIGHT))
        ELSE o3

\* 4. OTHER -> SL/SR (primary) + BL/BR + heights + subtle FL/FR
RouteOther(st, p, xl, xh, bank, out) ==
    LET sr             == st.sample_rate
        other_left     == get_left(st.other)
        other_right    == get_right(st.other)
        other_mono     == to_mono(st.other)
        other_left_hp  == highpass(xl, other_left)
        other_right_hp == highpass(xl, other_right)
        other_mono_hp  == highpass(xl, other_mono)
        sl_raw         == Scale(other_left_hp, p.other_side_gain)
        sr_raw         == Scale(other_right_hp, p.other_side_gain)
        sl_delayed     == apply_delay(sl_raw, p.surround_delay_ms, sr)
        sr_delayed     == apply_delay(sr_raw, p.surround_delay_ms, sr)
        o1 == AddCh(out, CH_SL,
                    process_blended(bank, sl_delayed, D_SL, DECORR_BLEND_SURROUND))
        o2 == AddCh(o1, CH_SR,
                    process_blended(bank, sr_delayed, D_SR, DECORR_BLEND_SURROUND))
        total_rear_delay == p.surround_delay_ms + p.rear_extra_delay_ms
        bl_raw == apply_delay(Scale(other_left_hp, p.other_rear_gain),
                              total_rear_delay, sr)
        br_raw == apply_delay(Scale(other_right_hp, p.other_rear_gain),
                              total_rear_delay, sr)
        o3 == AddCh(o2, CH_BL,
                    process_blended(bank, bl_raw, D_BL, DECORR_BLEND_SURROUND + 10))
        o4 == AddCh(o3, CH_BR,
                    process_blended(bank, br_raw, D_BR, DECORR_BLEND_SURROUND + 10))
        o8 == IF p.other_height_gain > 1 THEN
                  LET other_height_hp == highpass(xh, other_mono_hp)
                      front == Scale(other_height_hp, p.other_height_gain)
                      back  == [i \in 1..Len(other_height_hp) |->
                                  RoundDiv(other_height_hp[i] * p.other_height_gain * 8,
                                           1000)]
                      o5 == AddCh(o4, CH_TFL,
                                  process_blended(bank, front, D_TFL, DECORR_BLEND_HEIGHT))
                      o6 == AddCh(o5, CH_TFR,
                                  process_blended(bank, front, D_TFR, DECORR_BLEND_HEIGHT))
                      o7 == AddCh(o6, CH_TBL,
                                  process_blended(bank, back, D_TBL,
                                                  DECORR_BLEND_HEIGHT + 10))
                  IN  AddCh(o7, CH_TBR,
                            process_blended(bank, back, D_TBR, DECORR_BLEND_HEIGHT + 10))
              ELSE o4
    IN  IF p.other_front_bleed > 1 THEN
            AddCh(AddCh(o8, CH_FL, Scale(other_left_hp, p.other_front_bleed)),
                  CH_FR, Scale(other_right_hp, p.other_front_bleed))
        ELSE o8

\* One entry of the record of what was done to the output buffer:
\* output[:, ch] += (a signal made from stem) * gain, gain in thousandths,
\* through decorr.process_blended or not.
Add(stem, ch, gain, decorrelated) ==
    [op |-> "add", stem |-> stem, ch |-> ch, gain |-> gain,
     decorrelated |-> decorrelated]

\* output = op(output, ...)
Ran(op) ==
    [op |-> op, stem |-> "all", ch |-> -1, gain |-> 1000, decorrelated |-> FALSE]

\* The += statements of step 1, in order.
VocalsAdds(p) ==
    << Add("vocals", CH_FC, 10 * p.vocal_center_gain, FALSE),
       Add("vocals", CH_FL, 10 * p.vocal_width_bleed, TRUE),
       Add("vocals", CH_FR, 10 * p.vocal_width_bleed, TRUE) >>

\* The += statements of step 2, in order.
BassAdds(p) ==
    << Add("bass", CH_LFE, 10 * p.bass_lfe_gain, FALSE),
       Add("bass", CH_FC, 10 * p.bass_center_gain, FALSE) >>

\* The += statements of step 3, in order.
DrumsAdds(p) ==
    << Add("drums", CH_LFE, 10 * p.drum_lfe_gain, FALSE),
       Add("drums", CH_FL, 10 * p.drum_front_gain, FALSE),
       Add("drums", CH_FR, 10 * p.drum_front_gain, FALSE) >>
    \o (IF p.drum_height_bleed > 1
        THEN << Add("drums", CH_TFL, 10 * p.drum_height_bleed, TRUE),
                Add("drums", CH_TFR, 10 * p.drum_height_bleed, TRUE) >>
        ELSE <<>>)

\* The += statements of step 4, in order.
OtherAdds(p) ==
    << Add("other", CH_SL, 10 * p.other_side_gain, TRUE),
       Add("other", CH_SR, 10 * p.other_side_gain, TRUE),
       Add("other", CH_BL, 10 * p.other_rear_gain, TRUE),
       Add("other", CH_BR, 10 * p.other_rear_gain, TRUE) >>
    \o (IF p.other_height_gain > 1
        THEN << Add("other", CH_TFL, 10 * p.other_height_gain, TRUE),
                Add("other", CH_TFR, 10 * p.other_height_gain, TRUE),
                Add("other", CH_TBL, 8 * p.other_height_gain, TRUE),
                Add("other", CH_TBR, 8 * p.other_height_gain, TRUE) >>
        ELSE <<>>)
    \o (IF p.other_front_bleed > 1
        THEN << Add("other", CH_FL, 10 * p.other_front_bleed, FALSE),
                Add("other", CH_FR, 10 * p.other_front_bleed, FALSE) >>
        ELSE <<>>)

\* A mutant of MixReturn: the project rate is returned, not the stems' rate.
MixReturn_project_rate(out, sr) == [output |-> out, sample_rate |-> SAMPLE_RATE]

\* return output, sr
MixReturn(out, sr) == [output |-> out, sample_rate |-> sr]

----------------------------------------------------------------------------
(* mix_to_714 as a state machine: one call, step by step, then a second    *)
(* call with the same arguments in the same process.                       *)

\* The waveform of the non-silent stems.
Wave(i) == CASE i % 3 = 1 -> 1000 [] i % 3 = 2 -> -600 [] OTHER -> 800

\* A stereo stem (N, 2): silent, centred (L == R) or wide (L != R).
Stem(kind, n) ==
    CASE kind = "silent" -> (0 :> Zeros(n)) @@ (1 :> Zeros(n))
      [] kind = "centre" -> (0 :> [i \in 1..n |-> Wave(i)])
                            @@ (1 :> [i \in 1..n |-> Wave(i)])
      [] kind = "wide"   -> (0 :> [i \in 1..n |-> Wave(i)])
                            @@ (1 :> [i \in 1..n |-> -(Wave(i) \div 2)])

StemKinds == {"silent", "centre", "wide"}

\* StemData: four stems of one length and a sample rate.
StemSets ==
    { [ vocals |-> Stem(kv, n), drums |-> Stem(kd, n), bass |-> Stem(kb, n),
        other |-> Stem(ko, n), sample_rate |-> sr ] :
        kv \in StemKinds, kd \in StemKinds, kb \in StemKinds, ko \in StemKinds,
        n \in 0..MaxLen, sr \in {44100, SAMPLE_RATE} }

\* The default gains with the filter lengths and delays scaled down to the
\* buffer lengths of the model: 5 taps (4 requested), 2 allpass stages,
\* surround delay 0.02 ms (1 sample), rear delay 0.04 ms (2 samples).
SmallPreset ==
    [MixPreset EXCEPT !.fir_taps = 4, !.decorr_stages = 2,
                      !.surround_delay_ms = 2, !.rear_extra_delay_ms = 2]

\* Presets of the mixer: all gates open; the drum height gate closed (at
\* 0.01); the other-stem height and front gates closed; a tuned variant
\* with 7 taps, one stage and no surround delay; a hot variant whose sums
\* exceed the soft-clip threshold; a variant built with a negative gain,
\* which the dataclass constructor stores as given.
MixPresets ==
    { SmallPreset,
      [SmallPreset EXCEPT !.drum_height_bleed = 1],
      [SmallPreset EXCEPT !.other_height_gain = 1, !.other_front_bleed = 1],
      [SmallPreset EXCEPT !.fir_taps = 7, !.decorr_stages = 1,
                          !.surround_delay_ms = 0, !.target_peak_dbfs = -150,
                          !.bass_lfe_gain = 90, !.bass_center_gain = 65],
      [SmallPreset EXCEPT !.vocal_center_gain = 250, !.drum_front_gain = 300,
                          !.bass_lfe_gain = 100, !.drum_lfe_gain = 200,
                          !.target_peak_dbfs = -50],
      [SmallPreset EXCEPT !.other_side_gain = -50] }

\* mixer.py 82-118: sr, n_samples, the two crossovers, the bank and the
\* zeroed output buffer of a call on (st, p).
MixBegin(st, p) ==
    /\ stems' = st
    /\ preset' = p
    /\ xo_lfe' = Crossover(LFE_CROSSOVER_HZ, st.sample_rate, p.fir_taps)
    /\ xo_height' = Crossover(HEIGHT_HIGHPASS_HZ, st.sample_rate, p.fir_taps)
    /\ decorr' = DecorrelationBank(st.sample_rate, 8, p.decorr_stages,
                                   DECORR_SEED_BASE, DECORR_MIN_FREQ,
                                   DECORR_MAX_FREQ, os_entropy)
    /\ output' = MixAlloc(st)
    /\ added' = <<>>
    /\ mpc' = "vocals"
    /\ os_entropy' = os_entropy + 1
    /\ UNCHANGED notMix

\* The first call of the process.
MixCall(st, p) ==
    /\ mpc = "idle"
    /\ calls' = 1
    /\ MixBegin(st, p)
    /\ UNCHANGED <<ret, first>>

MixStep(from, to, out, ops) ==
    /\ mpc = from
    /\ mpc' = to
    /\ output' = out
    /\ added' = added \o ops
    /\ UNCHANGED <<stems, preset, xo_lfe, xo_height, decorr, ret, calls, first,
                   os_entropy>>
    /\ UNCHANGED notMix

StepVocals ==
    MixStep("vocals", "bass", RouteVocals(stems, preset, xo_lfe, decorr, output),
            VocalsAdds(preset))

StepBass ==
    MixStep("bass", "drums", RouteBass(stems, preset, xo_lfe, output),
            BassAdds(preset))

StepDrums ==
    MixStep("drums", "other",
            RouteDrums(stems, preset, xo_lfe, xo_height, decorr, output),
            DrumsAdds(preset))

StepOther ==
    MixStep("other", "clip",
            RouteOther(stems, preset, xo_lfe, xo_height, decorr, output),
            OtherAdds(preset))

\* output = soft_clip(output, threshold=0.95)
\* The soft clipper left out: the buffer goes to peak_normalize as summed.
StepSoftClip_skipped == MixStep("clip", "normalize", output, <<>>)

StepSoftClip ==
    MixStep("clip", "normalize", soft_clip(output, 950), <<Ran("soft_clip")>>)

\* output = peak_normalize(output, target_dbfs=preset.target_peak_dbfs);
\* return output, sr.  np.max raises ValueError on a zero-size buffer.
StepNormalize ==
    /\ mpc = "normalize"
    /\ IF np_max_raises(output)
       THEN /\ mpc' = "raised"
            /\ ret' = [error |-> "ValueError"]
            /\ UNCHANGED output
       ELSE /\ mpc' = "returned"
            /\ output' = peak_normalize(output, preset.target_peak_dbfs)
            /\ ret' = MixReturn(output', stems.sample_rate)
    /\ added' = Append(added, Ran("peak_normalize"))
    /\ UNCHANGED <<stems, preset, xo_lfe, xo_height, decorr, calls, first,
                   os_entropy>>
    /\ UNCHANGED notMix

\* A second call with the same stems and preset; what the first call built
\* and returned is kept aside.
MixAgain ==
    /\ mpc \in {"returned", "raised"}
    /\ calls = 1
    /\ calls' = 2
    /\ first' = [ret |-> ret, xo_lfe |-> xo_lfe, xo_height |-> xo_height,
                 decorr |-> decorr]
    /\ MixBegin(stems, preset)
    /\ UNCHANGED ret

MixInit == AdaptIdle /\ DspIdle /\ MixIdle /\ RunIdle /\ GuiIdle /\ IoIdle

MixNext ==
    \/ \E st \in StemSets, p \in MixPresets : MixCall(st, p)
    \/ StepVocals
    \/ StepBass
    \/ StepDrums
    \/ StepOther
    \/ StepSoftClip
    \/ StepNormalize
    \/ MixAgain

SpecMix == MixInit /\ [][MixNext]_vars

----------------------------------------------------------------------------
(* Claims about mix_to_714                                                 *)

Silent(stem) == \A c \in DOMAIN stem : \A i \in 1..Len(stem[c]) : stem[c][i] = 0

AllZero(ch) == \A i \in 1..Len(ch) : ch[i] = 0

StemNames == {"vocals", "bass", "drums", "other"}

\* The channels a stem is routed to under preset p, as the routing contract
\* states them.
RoutedTo(name, p) ==
    CASE name = "vocals" -> {CH_FC, CH_FL, CH_FR}
      [] name = "bass"   -> {CH_LFE, CH_FC}
      [] name = "drums"  ->
            {CH_LFE, CH_FL, CH_FR}
            \cup (IF p.drum_height_bleed > 1 THEN {CH_TFL, CH_TFR} ELSE {})
      [] name = "other"  ->
            {CH_SL, CH_SR, CH_BL, CH_BR}
            \cup (IF p.other_height_gain > 1
                  THEN {CH_TFL, CH_TFR, CH_TBL, CH_TBR} ELSE {})
            \cup (IF p.other_front_bleed > 1 THEN {CH_FL, CH_FR} ELSE {})

\* C1: while mix_to_714 runs and when it has returned, an output channel is
\* all-zero whenever every stem routed to it (vocals -> FC, FL, FR; bass ->
\* LFE, FC; drums -> LFE, FL, FR and, above the 0.01 gate, TFL, TFR; other
\* -> SL, SR, BL, BR and, above the gates, the four heights and FL, FR) is
\* silent.
C1_RoutedChannelsOnly ==
    mpc \notin {"idle", "raised"} =>
        \A ch \in 0..(CHANNEL_COUNT_714 - 1) :
            (\A name \in StemNames :
                ch \in RoutedTo(name, preset) => Silent(stems[name]))
            => /\ AllZero(output[ch])
               /\ mpc = "returned" => AllZero(ret.output[ch])

\* A bass-only input has been mixed: LFE and FC carry signal, every other
\* channel is zero.
C1_Witness ==
    /\ mpc = "returned"
    /\ Len(stems.bass[0]) = MaxLen
    /\ ~Silent(stems.bass)
    /\ Silent(stems.vocals) /\ Silent(stems.drums) /\ Silent(stems.other)
    /\ ~AllZero(ret.output[CH_LFE])
    /\ ~AllZero(ret.output[CH_FC])
    /\ \A ch \in (0..(CHANNEL_COUNT_714 - 1)) \ {CH_LFE, CH_FC} :
            AllZero(ret.output[ch])

\* An other-only input has been mixed with every gate open: FC and LFE are
\* zero, the surrounds and heights carry signal.
C1_WitnessOther ==
    /\ mpc = "returned"
    /\ ~Silent(stems.other)
    /\ Silent(stems.vocals) /\ Silent(stems.drums) /\ Silent(stems.bass)
    /\ preset.other_height_gain > 1
    /\ AllZero(ret.output[CH_FC]) /\ AllZero(ret.output[CH_LFE])
    /\ ~AllZero(ret.output[CH_SL]) /\ ~AllZero(ret.output[CH_TBL])

\* C5: the buffer mix_to_714 returns has no sample, on any of the 12
\* channels, whose magnitude exceeds 10^(target_peak_dbfs / 20).
C5_PeakCeiling ==
    mpc = "returned" =>
        \A ch \in DOMAIN ret.output : \A i \in 1..Len(ret.output[ch]) :
            /\ ret.output[ch][i] <= db_to_linear(preset.target_peak_dbfs)
            /\ -ret.output[ch][i] <= db_to_linear(preset.target_peak_dbfs)

\* A mix has returned whose loudest sample sits exactly at the target, on a
\* channel other than the first, after the soft clipper has acted.
C5_Witness ==
    /\ mpc = "returned"
    /\ \E i \in 1..Len(output[CH_FC]) :
            Abs(ret.output[CH_FC][i]) = db_to_linear(preset.target_peak_dbfs)
    /\ \A i \in 1..Len(output[CH_FL]) :
            Abs(ret.output[CH_FL][i]) < db_to_linear(preset.target_peak_dbfs)
    /\ preset.vocal_center_gain > 100

\* C8: in a second call with the same stems and preset, the two crossovers
\* and the bank of 8 decorrelators are equal to those the first call built,
\* and when the second call returns, it returns the buffer and rate the
\* first call returned.
C8_Deterministic ==
    calls = 2 =>
        /\ xo_lfe = first.xo_lfe
        /\ xo_height = first.xo_height
        /\ Len(decorr) = 8
        /\ decorr = first.decorr
        /\ mpc = "returned" => ret = first.ret

\* A second call has returned a buffer that carries decorrelated signal.
C8_Witness ==
    /\ calls = 2
    /\ mpc = "returned"
    /\ ~Silent(stems.other)
    /\ ~AllZero(ret.output[CH_SL])
    /\ ret.output = first.ret.output

\* C9: when mix_to_714 returns, the buffer has shape (len(stems.vocals), 12)
\* and the rate returned is stems.sample_rate.
C9_ShapeAndRate ==
    mpc = "returned" =>
        /\ Shape(ret.output) = <<Len(stems.vocals[0]), CHANNEL_COUNT_714>>
        /\ ret.sample_rate = stems.sample_rate

\* A mix of MaxLen samples at 44.1 kHz has returned.
C9_Witness ==
    /\ mpc = "returned"
    /\ Len(stems.vocals[0]) = MaxLen
    /\ stems.sample_rate = 44100
    /\ Shape(ret.output) = <<MaxLen, 12>>
    /\ ret.sample_rate = 44100

----------------------------------------------------------------------------
(* analyzer.py: analyse                                                    *)
(* Samples of the analyser's inputs are whole units; dB values are in      *)
(* hundredths, densities, ratios and widths in hundredths.  A float that   *)
(* may be NaN is a record [nan, val].                                      *)

Num(v) == [nan |-> FALSE, val |-> v]

NaN == [nan |-> TRUE, val |-> 0]

\* 1000 * log10(k) for k = 1..32 (10 * log10 in hundredths of a dB).
Log10Table ==
    <<0, 301, 477, 602, 699, 778, 845, 903, 954, 1000, 1041, 1079, 1114,
      1146, 1176, 1204, 1230, 1255, 1279, 1301, 1322, 1342, 1362, 1380,
      1398, 1415, 1431, 1447, 1462, 1477, 1491, 1505>>

\* 10 * log10(num / den + 1e-12) in hundredths of a dB; -120 dB at 0.
TenLog10(num, den) ==
    IF num = 0 THEN -12000 ELSE Log10Table[num] - Log10Table[den]

SeqSum(x) == LET RECURSIVE S(_) S(i) == IF i = 0 THEN 0 ELSE x[i] + S(i - 1) IN S(Len(x))

SeqMul(x, y) == [i \in 1..Len(x) |-> x[i] * y[i]]

\* floor(sqrt(n))
ISqrt(n) == CHOOSE k \in 0..n : k * k <= n /\ (k + 1) * (k + 1) > n

\* 2 * mono: (audio[:, 0] + audio[:, 1]) / 2.0 for (N, 2), audio for (N,).
AnMono2(audio) ==
    IF audio.ndim = 2 THEN SeqAdd(audio.left, audio.right)
    ELSE [i \in 1..Len(audio.left) |-> 2 * audio.left[i]]

\* frame_len = int(0.01 * sample_rate)
AnFrameLen(sample_rate) == sample_rate \div 100

\* energy_db: 10 * log10(sum(frame ** 2) + 1e-12) per 10 ms frame.
AnEnergyDb(mono2, frame_len, n_frames) ==
    [f \in 1..n_frames |->
        TenLog10(SeqSum([j \in 1..frame_len |->
                            mono2[(f - 1) * frame_len + j]
                            * mono2[(f - 1) * frame_len + j]]), 4)]

\* transients = sum(diff(energy_db) > 6.0);
\* transient_density = clip(transients / n_frames, 0, 1)
AnTransientDensity(energy_db) ==
    LET n == Len(energy_db)
        transients ==
            Cardinality({j \in 1..(n - 1) : energy_db[j + 1] - energy_db[j] > 600})
    IN  Min(Max(RoundDiv(100 * transients, n), 0), 100)

\* dynamic_range = sorted[int(0.95 * n)] - sorted[int(0.10 * n)]
AnDynamicRange(energy_db) ==
    LET n == Len(energy_db)
        energy_sorted == SortSeq(energy_db, LAMBDA a, b : a < b)
        idx_hi == (95 * n) \div 100
        idx_lo == (10 * n) \div 100
    IN  energy_sorted[idx_hi + 1] - energy_sorted[idx_lo + 1]

\* np.corrcoef(left, right)[0, 1] in hundredths: the covariance over the
\* product of the standard deviations, NaN (0 / 0) when either channel has
\* no variance.
corrcoef(left, right) ==
    LET n   == Len(left)
        cov == n * SeqSum(SeqMul(left, right)) - SeqSum(left) * SeqSum(right)
        vl  == n * SeqSum(SeqMul(left, left)) - SeqSum(left) * SeqSum(left)
        vr  == n * SeqSum(SeqMul(right, right)) - SeqSum(right) * SeqSum(right)
    IN  IF vl * vr = 0 THEN NaN
        ELSE LET mag == Min(ISqrt((10000 * cov * cov) \div (vl * vr)), 100)
             IN  Num(IF cov < 0 THEN -mag ELSE mag)

\* stereo_width = clip(1.0 - abs(correlation), 0, 1) for (N, 2); abs, the
\* subtraction and np.clip all pass NaN through.  0.0 for (N,).
AnStereoWidth(audio) ==
    IF audio.ndim = 2
    THEN LET correlation == corrcoef(audio.left, audio.right)
         IN  IF correlation.nan THEN NaN
             ELSE Num(Min(Max(100 - Abs(correlation.val), 0), 100))
    ELSE Num(0)

\* rms_dbfs = 20 * log10(sqrt(mean(mono ** 2)) + 1e-12)
AnRmsDbfs(mono2) ==
    LET ss == SeqSum(SeqMul(mono2, mono2))
    IN  IF ss = 0 THEN -24000 ELSE TenLog10(ss, 4 * Len(mono2))

\* The labels with the thresholds themselves counted in: >= 3000 is bright,
\* <= 1500 warm, >= 0.35 bass-heavy, <= 0.15 light-bass.
AnDescription_inclusive(centroid, bass_ratio, transient_density, stereo_width) ==
    << IF centroid >= 3000 THEN "bright"
       ELSE IF centroid <= 1500 THEN "warm" ELSE "balanced",
       IF bass_ratio >= 35 THEN "bass-heavy"
       ELSE IF bass_ratio <= 15 THEN "light-bass" ELSE "moderate-bass",
       IF transient_density > 15 THEN "transient-rich" ELSE "smooth",
       IF ~stereo_width.nan /\ stereo_width.val > 40 THEN "wide-stereo"
       ELSE IF ~stereo_width.nan /\ stereo_width.val < 15 THEN "narrow"
       ELSE "moderate-width" >>

\* The four labels of the description; a comparison with NaN is false.
AnDescription(centroid, bass_ratio, transient_density, stereo_width) ==
    << IF centroid > 3000 THEN "bright"
       ELSE IF centroid < 1500 THEN "warm" ELSE "balanced",
       IF bass_ratio > 35 THEN "bass-heavy"
       ELSE IF bass_ratio < 15 THEN "light-bass" ELSE "moderate-bass",
       IF transient_density > 15 THEN "transient-rich" ELSE "smooth",
       IF ~stereo_width.nan /\ stereo_width.val > 40 THEN "wide-stereo"
       ELSE IF ~stereo_width.nan /\ stereo_width.val < 15 THEN "narrow"
       ELSE "moderate-width" >>

\* scipy.signal.stft(mono, nperseg = min(4096, len(mono))) raises
\* ValueError when nperseg is not positive.
stft_raises(mono2) == Min(4096, Len(mono2)) < 1

\* analyse(audio, sample_rate) on an input the STFT accepts.  The spectral
\* centroid (Hz) and the bass energy ratio come from the STFT magnitudes:
\* both are 0 for an all-zero signal (0 / 1e-12) and are otherwise given by
\* the spectrum of the signal, spectrum = <<centroid, ratio>>.
analyse(audio, sample_rate, spectrum) ==
    LET mono2     == AnMono2(audio)
        silent    == \A i \in 1..Len(mono2) : mono2[i] = 0
        centroid  == IF silent THEN 0 ELSE spectrum[1]
        bass      == IF silent THEN 0 ELSE spectrum[2]
        frame_len == AnFrameLen(sample_rate)
        n_frames  == Len(mono2) \div frame_len
        energy_db == AnEnergyDb(mono2, frame_len, n_frames)
        density   == IF n_frames >= 2 THEN AnTransientDensity(energy_db) ELSE 50
        dynamic   == IF n_frames >= 2 THEN AnDynamicRange(energy_db) ELSE 2000
        width     == AnStereoWidth(audio)
    IN  [ spectral_centroid_hz |-> centroid,
          bass_energy_ratio    |-> bass,
          transient_density    |-> density,
          stereo_width         |-> width,
          dynamic_range_db     |-> dynamic,
          rms_dbfs             |-> AnRmsDbfs(mono2),
          description |-> AnDescription(centroid, bass, density, width) ]

----------------------------------------------------------------------------
(* analyse called on its own                                               *)

\* Longest buffer given to the analyser.
AnLen == MaxLen + 1

AnSignals == UNION {[1..n -> {-1, 0, 1}] : n \in 0..AnLen}

Reverse(x) == [i \in 1..Len(x) |-> x[Len(x) + 1 - i]]

\* Buffers (N,) and (N, 2); the right channel of a stereo buffer is the
\* left one, its negation, silence or its reversal.
AnAudio ==
    { [ndim |-> 1, left |-> x, right |-> x] : x \in AnSignals }
    \cup { [ndim |-> 2, left |-> x, right |-> x] : x \in AnSignals }
    \cup { [ndim |-> 2, left |-> x, right |-> SeqNeg(x)] : x \in AnSignals }
    \cup { [ndim |-> 2, left |-> x, right |-> Zeros(Len(x))] : x \in AnSignals }
    \cup { [ndim |-> 2, left |-> x, right |-> Reverse(x)] : x \in AnSignals }

\* Sample rates with 10 ms frames of 1 and 2 samples, and the project rate.
AnRates == {100, 200, SAMPLE_RATE}

\* <<spectral centroid in Hz, bass energy ratio>> of non-silent signals:
\* on both sides of the thresholds of the description and on them.
AnSpectra == {<<1000, 50>>, <<3500, 10>>, <<3000, 35>>, <<1500, 15>>}

\* analyse(audio, sample_rate): the STFT raises on a zero-length buffer,
\* before anything is measured.
CallAnalyse(audio, sample_rate, spectrum) ==
    /\ dop = "idle"
    /\ din' = [audio |-> audio, sample_rate |-> sample_rate]
    /\ IF stft_raises(AnMono2(audio))
       THEN dop' = "raised" /\ dout' = "ValueError"
       ELSE dop' = "analyse" /\ dout' = analyse(audio, sample_rate, spectrum)
    /\ UNCHANGED notDsp

AnalyseNext ==
    \/ \E audio \in AnAudio, r \in AnRates, sp \in AnSpectra :
            CallAnalyse(audio, r, sp)
    \/ DspReturn

SpecAnalyse == DspInit /\ [][AnalyseNext]_vars

\* C11: when analyse returns on a stereo input with L == -R, it reports
\* stereo_width == 1.
C11_AntiphaseWidthOne ==
    (/\ dop = "analyse"
     /\ din.audio.ndim = 2
     /\ din.audio.right = SeqNeg(din.audio.left))
    => dout.stereo_width = Num(100)

\* C12: when analyse returns on a stereo input with L == R or on a mono
\* input, it reports stereo_width == 0.
C12_MonoWidthZero ==
    (/\ dop = "analyse"
     /\ \/ din.audio.ndim = 1
        \/ din.audio.right = din.audio.left)
    => dout.stereo_width = Num(0)

\* C13: analyse never raises; with fewer than 2 ten-millisecond frames the
\* record carries transient_density = 0.5 and dynamic_range_db = 20.0, and
\* a zero-length input yields zeros and those defaults.
C13_AnalyseNeverRaises ==
    dop \in {"analyse", "raised"} =>
        /\ dop = "analyse"
        /\ Len(din.audio.left) \div AnFrameLen(din.sample_rate) < 2 =>
              /\ dout.transient_density = 50
              /\ dout.dynamic_range_db = 2000
        /\ Len(din.audio.left) = 0 =>
              /\ dout.spectral_centroid_hz = 0
              /\ dout.bass_energy_ratio = 0

----------------------------------------------------------------------------
(* Claims about the DSP operations on empty buffers and about apply_delay  *)

\* C14: a core DSP operation applied to a buffer with N = 0 (lowpass,
\* highpass, Decorrelator.process, apply_delay, soft_clip, peak_normalize,
\* downmix_714_to_51) raises nothing.
C14_EmptyBuffersPassThrough ==
    (dop # "idle" /\ din.n = 0) => dop # "raised"

\* C20: apply_delay(x, delay_ms, sr) with delay_ms >= 0 returns a signal of
\* the length of x made of d = round(delay_ms * sr / 1000) zeros followed by
\* the first len(x) - d samples of x, all zeros when d >= len(x), and x
\* itself when delay_ms = 0.
C20_ApplyDelay ==
    (dop = "apply_delay" /\ din.delay_ms >= 0) =>
        LET x == din.x
            d == RoundHalfEven(din.delay_ms * din.sample_rate, 100000)
        IN  /\ Len(dout) = Len(x)
            /\ \A i \in 1..Len(x) : dout[i] = IF i <= d THEN 0 ELSE x[i - d]
            /\ d >= Len(x) => dout = Zeros(Len(x))
            /\ din.delay_ms = 0 => dout = x

\* A delay of one sample on a three-sample signal: one zero in front, the
\* last sample dropped.
C20_Witness ==
    /\ dop = "apply_delay"
    /\ din.delay_ms = 2
    /\ din.sample_rate = SAMPLE_RATE
    /\ din.x = <<600, -1000, 600>>
    /\ dout = <<0, 600, -1000>>

\* A delay of 1.5 samples is 2 samples; nothing of the signal is left.
C20_WitnessLong ==
    /\ dop = "apply_delay"
    /\ din.delay_ms = 1500
    /\ din.sample_rate = 100
    /\ din.x = <<600, -1000>>
    /\ dout = <<0, 0>>

----------------------------------------------------------------------------
(* Claim about preset construction                                         *)

GainFields ==
    {"vocal_center_gain", "vocal_width_bleed", "bass_lfe_gain",
     "bass_center_gain", "drum_front_gain", "drum_lfe_gain",
     "drum_height_bleed", "other_side_gain", "other_rear_gain",
     "other_height_gain", "other_front_bleed"}

\* C15: a preset with an out-of-range gain is rejected when it is built, so
\* mix_to_714 never runs with a preset that carries a negative gain.
C15_OutOfRangeGainRejected ==
    mpc # "idle" => \A f \in GainFields : preset[f] >= 0

----------------------------------------------------------------------------
(* main.py: main and process_file; encoder.py: the three encoders.         *)
(* File names are numbered in the order sorted() gives them.               *)

\* Most names in a directory.
MaxFiles == 3

SUPPORTED_EXTENSIONS == {".wav", ".flac", ".mp3", ".m4a", ".ogg", ".aac", ".wma"}

\* os.path.splitext(f)[1] of name f: a lower-case audio extension, an
\* upper-case one, and a file that is no audio file.
splitext(f) ==
    CASE f % 3 = 1 -> ".wav"
      [] f % 3 = 2 -> ".MP3"
      [] OTHER     -> ".txt"

\* str.lower() on the extensions that occur.
lower(ext) == IF ext = ".MP3" THEN ".mp3" ELSE ext

\* sorted(S) for a set of names.
RECURSIVE sorted(_)
sorted(S) ==
    IF S = {} THEN <<>>
    ELSE LET least == CHOOSE n \in S : \A m \in S : n <= m
         IN  <<least>> \o sorted(S \ {least})

\* files = sorted(f for f in os.listdir(args.input)
\*                if os.path.splitext(f)[1].lower() in SUPPORTED_EXTENSIONS)
BatchFiles(names) ==
    sorted({f \in names : lower(splitext(f)) \in SUPPORTED_EXTENSIONS})

Formats == {"7.1.4", "5.1", "both"}

\* The outputs process_file is asked for.
Requested(format, wav) ==
    (IF format \in {"7.1.4", "both"} THEN {"714"} ELSE {})
    \cup (IF format \in {"5.1", "both"} THEN {"51"} ELSE {})
    \cup (IF wav THEN {"wav"} ELSE {})

NoEncode714 == [ffmpeg |-> "not_run", file |-> "none", returned |-> FALSE]

\* main() with a directory: the batch loop starts, or sys.exit(1) when no
\* supported file is found.
StartBatch(names, format, wav) ==
    /\ rpc = "idle"
    /\ rmode' = "batch"
    /\ listing' = names
    /\ files' = BatchFiles(names)
    /\ rpc' = IF BatchFiles(names) = <<>> THEN "exit" ELSE "loop"
    /\ fmt' = format
    /\ save_wav' = wav
    /\ UNCHANGED <<idx, mixed, tried, e714, attempted, reported>>
    /\ UNCHANGED notRun

\* main() with a single file: process_file(args.input, ...) outside any
\* try block.
StartSingle(f, format, wav) ==
    /\ rpc = "idle"
    /\ rmode' = "single"
    /\ listing' = {f}
    /\ files' = <<f>>
    /\ rpc' = "loop"
    /\ fmt' = format
    /\ save_wav' = wav
    /\ UNCHANGED <<idx, mixed, tried, e714, attempted, reported>>
    /\ UNCHANGED notRun

\* process_file is called on files[idx].
TrackBegin ==
    /\ rpc = "loop"
    /\ idx <= Len(files)
    /\ attempted' = Append(attempted, files[idx])
    /\ mixed' = FALSE
    /\ tried' = {}
    /\ e714' = NoEncode714
    /\ rpc' = "ingest"
    /\ UNCHANGED <<rmode, listing, files, idx, fmt, save_wav, reported>>
    /\ UNCHANGED notRun

\* A mutant of OnTrackError: no try block around process_file.
OnTrackError_uncaught(mode) == "crashed"

\* Where an exception raised inside process_file takes main: the batch
\* loop's `except Exception` prints it and goes on; in single mode it
\* leaves main.
OnTrackError(mode) == IF mode = "batch" THEN "loop" ELSE "crashed"

\* An exception leaves process_file.
TrackRaises ==
    /\ rpc' = OnTrackError(rmode)
    /\ IF OnTrackError(rmode) = "loop"
       THEN idx' = idx + 1 /\ reported' = reported \cup {files[idx]}
       ELSE UNCHANGED <<idx, reported>>

\* A step of process_file that touches none of the encoding state.
TrackStep(from, to, ok) ==
    /\ rpc = from
    /\ IF ok THEN rpc' = to /\ UNCHANGED <<idx, reported>> ELSE TrackRaises
    /\ UNCHANGED <<rmode, listing, files, fmt, save_wav, tried, e714, attempted>>
    /\ UNCHANGED notRun

\* Steps 1-2: sf.read, analyse, adapt_preset.  sf.read raises on an
\* unreadable file.
Ingest(ok) == TrackStep("ingest", "separate", ok) /\ UNCHANGED mixed

\* Step 3: separate raises RuntimeError when Demucs fails and
\* FileNotFoundError when a stem file is missing.
Separate(ok) == TrackStep("separate", "mix", ok) /\ UNCHANGED mixed

\* Step 4: mix_to_714.
Mix(ok) == TrackStep("mix", "enc714", ok) /\ mixed' = ok

\* Encoder.encode_714: the raw WAV is written to a temporary file, FFmpeg
\* re-muxes it with the 7.1.4 layout, and on a non-zero return code the raw
\* WAV is copied to the output path.  subprocess.run(..., timeout=300)
\* raises TimeoutExpired when FFmpeg does not end in time; nothing in
\* encode_714 catches it.  The result: what FFmpeg did, the file at the
\* output path, and whether encode_714 returned.
encode_714(sf_write_ok, ffmpeg) ==
    IF ~sf_write_ok THEN NoEncode714
    ELSE CASE ffmpeg = "ok"      -> [ffmpeg |-> "ok", file |-> "tagged", returned |-> TRUE]
           [] ffmpeg = "nonzero" -> [ffmpeg |-> "nonzero", file |-> "untagged", returned |-> TRUE]
           [] ffmpeg = "timeout" -> [ffmpeg |-> "timeout", file |-> "none", returned |-> FALSE]

\* An encoding step of process_file for output kind; result.returned tells
\* whether the encoder returned or raised.
EncodeStep(from, to, kind, returned) ==
    /\ rpc = from
    /\ tried' = tried \cup {kind}
    /\ IF returned THEN rpc' = to /\ UNCHANGED <<idx, reported>> ELSE TrackRaises
    /\ UNCHANGED <<rmode, listing, files, fmt, save_wav, mixed, attempted>>
    /\ UNCHANGED notRun

\* An output that was not asked for is passed over.
SkipStep(from, to) ==
    /\ rpc = from
    /\ rpc' = to
    /\ UNCHANGED <<rmode, listing, files, idx, fmt, save_wav, mixed, tried, e714,
                   attempted, reported>>
    /\ UNCHANGED notRun

\* if output_format in ("7.1.4", "both"): encoder.encode_714(...)
Encode714(sf_write_ok, ffmpeg) ==
    /\ fmt \in {"7.1.4", "both"}
    /\ e714' = encode_714(sf_write_ok, ffmpeg)
    /\ EncodeStep("enc714", "enc51", "714", encode_714(sf_write_ok, ffmpeg).returned)

Skip714 == fmt \notin {"7.1.4", "both"} /\ SkipStep("enc714", "enc51")

\* if output_format in ("5.1", "both"): encoder.encode_51(...), which raises
\* RuntimeError when both FFmpeg attempts fail.
Encode51(ok) ==
    /\ fmt \in {"5.1", "both"}
    /\ UNCHANGED e714
    /\ EncodeStep("enc51", "wav", "51", ok)

Skip51 == fmt \notin {"5.1", "both"} /\ SkipStep("enc51", "wav")

\* if save_wav: encoder.save_wav_master(...); sf.write raises on failure.
SaveWav(ok) ==
    /\ save_wav
    /\ UNCHANGED e714
    /\ EncodeStep("wav", "report", "wav", ok)

SkipWav == ~save_wav /\ SkipStep("wav", "report")

\* process_file prints the outputs and returns; the loop moves on.
TrackReturns ==
    /\ rpc = "report"
    /\ rpc' = "loop"
    /\ idx' = idx + 1
    /\ UNCHANGED <<rmode, listing, files, fmt, save_wav, mixed, tried, e714,
                   attempted, reported>>
    /\ UNCHANGED notRun

\* No file is left: main returns.
Finish ==
    /\ rpc = "loop"
    /\ idx > Len(files)
    /\ rpc' = "finished"
    /\ UNCHANGED <<rmode, listing, files, idx, fmt, save_wav, mixed, tried, e714,
                   attempted, reported>>
    /\ UNCHANGED notRun

RunInit == AdaptIdle /\ DspIdle /\ MixIdle /\ RunIdle /\ GuiIdle /\ IoIdle

RunNext ==
    \/ \E names \in SUBSET (1..MaxFiles), f \in Formats, w \in BOOLEAN :
            StartBatch(names, f, w)
    \/ \E n \in 1..MaxFiles, f \in Formats, w \in BOOLEAN : StartSingle(n, f, w)
    \/ TrackBegin
    \/ \E ok \in BOOLEAN : Ingest(ok)
    \/ \E ok \in BOOLEAN : Separate(ok)
    \/ \E ok \in BOOLEAN : Mix(ok)
    \/ \E w \in BOOLEAN, o \in {"ok", "nonzero", "timeout"} : Encode714(w, o)
    \/ Skip714
    \/ \E ok \in BOOLEAN : Encode51(ok)
    \/ Skip51
    \/ \E ok \in BOOLEAN : SaveWav(ok)
    \/ SkipWav
    \/ TrackReturns
    \/ Finish

SpecRun == RunInit /\ [][RunNext]_vars

----------------------------------------------------------------------------
(* Claims about encoding failures and the batch loop                       *)

\* C16: once a track has been mixed and process_file is over, the encoder
\* of every requested output (7.1.4 WAV, 5.1 AAC, WAV master) has been
\* called, whichever of them failed.
C16_OtherOutputsStillAttempted ==
    (rpc \in {"loop", "crashed", "finished"} /\ mixed)
    => tried = Requested(fmt, save_wav)

\* C17: whenever stamping the 7.1.4 layout fails in encode_714, the untagged
\* WAV is at the output path and encode_714 returns.
C17_TaggingFailureRecovered ==
    e714.ffmpeg \in {"nonzero", "timeout"}
    => e714.returned /\ e714.file = "untagged"

\* The state part of C18.
C18_BatchState ==
    (rmode = "batch" /\ rpc # "idle") =>
        /\ rpc # "crashed"
        /\ \A i \in 1..Len(files) : \A j \in 1..Len(files) :
                i < j => files[i] < files[j]
        /\ {files[i] : i \in 1..Len(files)}
               = {f \in listing : lower(splitext(f)) \in SUPPORTED_EXTENSIONS}
        /\ Len(attempted) <= Len(files)
        /\ attempted = SubSeq(files, 1, Len(attempted))
        /\ Len(attempted) = IF rpc \in {"loop", "finished", "exit"} THEN idx - 1 ELSE idx
        /\ rpc = "finished" => attempted = files
        /\ reported \subseteq {attempted[i] : i \in 1..Len(attempted)}
        /\ rpc = "loop" => ENABLED (TrackBegin \/ Finish)

\* The step part of C18: a track that ends without returning is reported,
\* and the loop moves to the next file.
C18_BatchStep ==
    (/\ rmode = "batch"
     /\ rpc \in {"ingest", "separate", "mix", "enc714", "enc51", "wav"}
     /\ rpc' = "loop")
    => /\ files[idx] \in reported'
       /\ idx' = idx + 1

\* C18: in batch mode every supported file of the directory is attempted
\* exactly once, in sorted order; a failure on one track is reported and
\* the loop goes on with the following track.
C18_BatchAttemptsAll == []C18_BatchState /\ [][C18_BatchStep]_vars

\* A batch over a directory with two audio files and one other file has
\* finished: the first track failed and was reported, the second was still
\* processed and encoded.
C18_Witness ==
    /\ rmode = "batch"
    /\ rpc = "finished"
    /\ listing = {1, 2, 3}
    /\ attempted = <<1, 2>>
    /\ reported = {1}
    /\ mixed
    /\ tried = Requested(fmt, save_wav)
    /\ tried # {}

-----------------------------------------------------------------------------
(* separator.py: loading the four Demucs stems                              *)
(* A 1-D array (N,) is a sequence; a 2-D array (N, k) is a function from    *)
(* the channel index 0..k-1 to the channel's samples.                       *)

ndim(x) == IF 0 \in DOMAIN x THEN 2 ELSE 1

\* x.shape[0]
shape0(x) == IF ndim(x) = 1 THEN Len(x) ELSE Len(x[0])

RECURSIVE gcd(_, _)
gcd(a, b) == IF b = 0 THEN a ELSE gcd(b, a % b)

\* scipy.signal.resample_poly(x, up, down): ceil(len(x) * up / down) samples.
\* The anti-aliasing filter is scipy's; here each output sample is the input
\* sample at its position.
resample_poly(x, up, down) ==
    LET n == (Len(x) * up + down - 1) \div down
    IN  [i \in 1..n |-> x[((i - 1) * down) \div up + 1]]

resample_if_needed(audio, orig_sr, target_sr) ==
    IF orig_sr = target_sr THEN audio
    ELSE LET g == gcd(orig_sr, target_sr)
             up == target_sr \div g
             down == orig_sr \div g
         IN  IF ndim(audio) = 1 THEN resample_poly(audio, up, down)
             ELSE [ch \in DOMAIN audio |-> resample_poly(audio[ch], up, down)]

ensure_stereo(x) ==
    IF ndim(x) = 1 THEN (0 :> x) @@ (1 :> x)
    ELSE IF Cardinality(DOMAIN x) = 1 THEN (0 :> x[0]) @@ (1 :> x[0])
    ELSE (0 :> x[0]) @@ (1 :> x[1])

\* np.pad(s, ((0, pad), (0, 0)), mode="constant"), with the zeros at the
\* front instead
np_pad_front(s, pad) == [ch \in DOMAIN s |-> Zeros(pad) \o s[ch]]

\* np.pad(s, ((0, pad), (0, 0)), mode="constant")
np_pad(s, pad) == [ch \in DOMAIN s |-> s[ch] \o Zeros(pad)]

stem_names == {"vocals", "drums", "bass", "other"}

\* separate, from the stem files Demucs wrote: wavs[name] is what sf.read
\* returns for the file of stem name.
separate(wavs, target_sr) ==
    LET loaded == [name \in stem_names |->
                     resample_if_needed(ensure_stereo(wavs[name].audio),
                                        wavs[name].sr, target_sr)]
        max_len == SetMax({shape0(loaded[name]) : name \in stem_names})
        padded == [name \in stem_names |->
                     IF shape0(loaded[name]) < max_len
                     THEN np_pad(loaded[name], max_len - shape0(loaded[name]))
                     ELSE loaded[name]]
    IN  [vocals |-> padded["vocals"], drums |-> padded["drums"],
         bass |-> padded["bass"], other |-> padded["other"],
         sample_rate |-> target_sr]

\* The content of a stem file: sample i of channel ch, never zero.
Tone(ch, i) == 100 * (ch + 1) + i

\* What sf.read returns for a stem file: (N,), (N, 1), (N, 2) or (N, 3).
StemFile(kind, n) ==
    CASE kind = "mono"  -> [i \in 1..n |-> Tone(0, i)]
      [] kind = "one"   -> [ch \in 0..0 |-> [i \in 1..n |-> Tone(ch, i)]]
      [] kind = "two"   -> [ch \in 0..1 |-> [i \in 1..n |-> Tone(ch, i)]]
      [] kind = "three" -> [ch \in 0..2 |-> [i \in 1..n |-> Tone(ch, i)]]

FileKinds == {"mono", "one", "two", "three"}

FileLens == {0, 1, MaxLen}

StemFiles == {StemFile(k, n) : k \in FileKinds, n \in FileLens}

\* Sample rates of the stem files, and the rates asked for.
FileRates == {24000, 44100, SAMPLE_RATE}

TargetRates == {44100, SAMPLE_RATE}

\* separate(input_path, target_sr=target_sr) with Demucs succeeding and the
\* four stem files present.  resample_poly on a zero-length channel is
\* scipy's business: it either raises or returns an empty channel.
CallSeparate(v, d, b, o, sr, target_sr, empty_raises) ==
    LET wavs == [vocals |-> [audio |-> v, sr |-> sr],
                  drums |-> [audio |-> d, sr |-> sr],
                  bass |-> [audio |-> b, sr |-> sr],
                  other |-> [audio |-> o, sr |-> sr]]
    IN  /\ dop = "idle"
        /\ din' = [files |-> wavs, target_sr |-> target_sr]
        /\ IF /\ empty_raises
              /\ sr # target_sr
              /\ \E name \in stem_names : shape0(wavs[name].audio) = 0
           THEN dop' = "raised" /\ dout' = "ValueError"
           ELSE dop' = "separate" /\ dout' = separate(wavs, target_sr)
        /\ UNCHANGED notDsp

\* Demucs exits non-zero, its output directory is not there, or a stem file
\* is missing: separate raises.
SeparateFailures == {"demucs", "stem_dir", "stem_file"}

CallSeparateFails(why) ==
    /\ dop = "idle"
    /\ din' = [failure |-> why]
    /\ dop' = "raised"
    /\ dout' = IF why = "demucs" THEN "RuntimeError" ELSE "FileNotFoundError"
    /\ UNCHANGED notDsp

SeparateNext ==
    \/ /\ dop = "idle"
       /\ \E v \in StemFiles, d \in StemFiles, b \in StemFiles,
             o \in StemFiles, sr \in FileRates, t \in TargetRates,
             e \in BOOLEAN :
               CallSeparate(v, d, b, o, sr, t, e)
    \/ \E why \in SeparateFailures : CallSeparateFails(why)
    \/ DspReturn

SpecSeparate == DspInit /\ [][SeparateNext]_vars

\* The stem as loaded: its first two channels (a single channel twice), at
\* the target rate.
LoadedChannel(file, ch, target_sr) ==
    LET a == file.audio
        src == IF ndim(a) = 1 THEN a
               ELSE IF ch \in DOMAIN a THEN a[ch] ELSE a[0]
        n == (Len(src) * target_sr + file.sr - 1) \div file.sr
    IN  IF file.sr = target_sr THEN src
        ELSE [i \in 1..n |-> src[((i - 1) * file.sr) \div target_sr + 1]]

\* C19: every StemData returned by separate holds four (N, 2) stems of one
\* length N, the maximum of the loaded stem lengths, with sample_rate =
\* target_sr; a mono stem is on both channels, a stem with more channels keeps
\* its first two, and a shorter stem is its loaded samples followed by zeros.
C19_StemData ==
    dop = "separate" =>
        LET t == din.target_sr
            len(name) == Len(LoadedChannel(din.files[name], 0, t))
            N == SetMax({len(name) : name \in stem_names})
        IN  /\ dout.sample_rate = t
            /\ \A name \in stem_names :
                 /\ DOMAIN dout[name] = {0, 1}
                 /\ \A ch \in {0, 1} :
                      /\ Len(dout[name][ch]) = N
                      /\ SubSeq(dout[name][ch], 1, len(name))
                           = LoadedChannel(din.files[name], ch, t)
                      /\ SubSeq(dout[name][ch], len(name) + 1, N)
                           = Zeros(N - len(name))
                 /\ (\/ ndim(din.files[name].audio) = 1
                     \/ DOMAIN din.files[name].audio = {0})
                    => dout[name][0] = dout[name][1]

\* A mono vocals file of one sample and a three-channel drums file of MaxLen
\* samples at 24 kHz, brought to 48 kHz: vocals are padded, drums are not.
C19_Witness ==
    /\ dop = "separate"
    /\ din.files.vocals = [audio |-> StemFile("mono", 1), sr |-> 24000]
    /\ din.files.drums.audio = StemFile("three", MaxLen)
    /\ din.files.bass.audio = StemFile("one", 0)
    /\ din.target_sr = SAMPLE_RATE
    /\ Shape(dout.vocals) = <<2 * MaxLen, 2>>
    /\ dout.vocals[0] = <<Tone(0, 1), Tone(0, 1)>> \o Zeros(2 * MaxLen - 2)
    /\ dout.drums[1][2 * MaxLen] = Tone(1, MaxLen)
    /\ dout.bass[0] = Zeros(2 * MaxLen)

-----------------------------------------------------------------------------
(* dsp/utils.py over binary floating point.  A float is an integer number   *)
(* of quanta with at most MantBits significant bits; every sum is rounded   *)
(* to the nearest such number, ties to even, as IEEE 754 does with 53 bits. *)

MantBits == 3

\* The spacing of the floats around a >= 0: the least power of two q with
\* a < q * 2^MantBits.
RECURSIVE Ulp(_, _)
Ulp(a, q) == IF a < q * (2 ^ MantBits) THEN q ELSE Ulp(a, 2 * q)

\* a >= 0 rounded to a multiple of q, ties to the even multiple.
RoundToEven(a, q) ==
    LET k == a \div q
        r == a - k * q
    IN  IF 2 * r < q THEN k * q
        ELSE IF 2 * r > q THEN (k + 1) * q
        ELSE IF k % 2 = 0 THEN k * q ELSE (k + 1) * q

\* The float nearest to the real number v.
fl(v) == IF v < 0 THEN -RoundToEven(-v, Ulp(-v, 1)) ELSE RoundToEven(v, Ulp(v, 1))

\* a + b and a - b in floating point
fadd(a, b) == fl(a + b)

fsub(a, b) == fl(a - b)

\* v / 2.0: exact (samples are multiples of 4 quanta, nothing underflows).
fhalf(v) == IF v < 0 THEN -((-v) \div 2) ELSE v \div 2

\* mid_side with side = x[:, 0] - x[:, 1], the division by two left out
mid_side_float_unhalved(x) ==
    [ mid  |-> [i \in 1..Len(x[0]) |-> fhalf(fadd(x[0][i], x[1][i]))],
      side |-> [i \in 1..Len(x[0]) |-> fsub(x[0][i], x[1][i])] ]

\* mid_side(x) for a stereo (N, 2) buffer of floats
mid_side_float(x) ==
    [ mid  |-> [i \in 1..Len(x[0]) |-> fhalf(fadd(x[0][i], x[1][i]))],
      side |-> [i \in 1..Len(x[0]) |-> fhalf(fsub(x[0][i], x[1][i]))] ]

\* Float samples: multiples of 4 quanta.
FloatValues == {4 * k : k \in {j \in -9..9 : fl(j) = j}}

\* A stereo buffer (N, 2) alternating between (l, r) and (-l, -r).
FloatBuffer(n, l, r) ==
    (0 :> [i \in 1..n |-> IF i % 2 = 1 THEN l ELSE -l])
    @@ (1 :> [i \in 1..n |-> IF i % 2 = 1 THEN r ELSE -r])

FloatBuffers ==
    {FloatBuffer(n, l, r) : n \in 0..MaxLen, l \in FloatValues, r \in FloatValues}

\* mid, side = mid_side(x)
CallMidSide(x) ==
    /\ dop = "idle"
    /\ dop' = "mid_side"
    /\ din' = [x |-> x, n |-> Len(x[0])]
    /\ dout' = mid_side_float(x)
    /\ UNCHANGED notDsp

UtilNext ==
    \/ \E x \in FloatBuffers : CallMidSide(x)
    \/ DspReturn

SpecUtil == DspInit /\ [][UtilNext]_vars

C21_WitnessExact ==
    /\ dop = "mid_side"
    /\ din.x = FloatBuffer(2, 28, 4)
    /\ dout.mid = <<16, -16>>
    /\ dout.side = <<12, -12>>

-----------------------------------------------------------------------------
(* Claims about soft_clip (checked under SpecDsp)                           *)

\* C22: soft_clip(x, 0.95) returns every sample with |x| <= 0.95 unchanged,
\* so a buffer with max|x| <= 0.95 comes back as it is; only samples over the
\* threshold differ from the input.
C22_SoftClipIdentityBelow ==
    (dop = "soft_clip" /\ din.threshold = 950) =>
        /\ DOMAIN dout = DOMAIN din.x
        /\ \A ch \in DOMAIN din.x :
             /\ Len(dout[ch]) = Len(din.x[ch])
             /\ \A i \in 1..Len(din.x[ch]) :
                  /\ Abs(din.x[ch][i]) <= 950 => dout[ch][i] = din.x[ch][i]
                  /\ dout[ch][i] # din.x[ch][i] => Abs(din.x[ch][i]) > 950
        /\ (\A v \in Samples(din.x) : Abs(v) <= 950) => dout = din.x

\* A buffer with a sample at the threshold, one over it and one under it.
C22_Witness ==
    /\ dop = "soft_clip"
    /\ din.threshold = 950
    /\ din.n = MaxLen
    /\ din.x[0][1] = 950 /\ dout[0][1] = 950
    /\ din.x[0][2] = -1000 /\ dout[0][2] # -1000
    /\ din.x[1][1] = 600 /\ dout[1][1] = 600

\* A non-empty buffer with no sample over the threshold.
C22_WitnessIdentity ==
    /\ dop = "soft_clip"
    /\ din.n = MaxLen
    /\ \A v \in Samples(din.x) : Abs(v) <= 950
    /\ 950 \in Samples(din.x)
    /\ dout = din.x

-----------------------------------------------------------------------------
(* Claims about the cross-feeds and the order of operations of mix_to_714   *)
(* (checked under SpecMix)                                                  *)

\* The gains of the presets adapt_preset returns for the shipped presets.
AdaptedGains ==
    { [f \in GainFields |->
         LET r == adapt_preset(ModuleHeap, PRESETS[q], a) IN r.heap[r.ref][f]] :
      q \in Qualities, a \in Analyses }

PrimaryGroup(stem) ==
    CASE stem = "vocals" -> {CH_FC}
      [] stem = "drums"  -> {CH_FL, CH_FR, CH_LFE}
      [] stem = "other"  -> {CH_SL, CH_SR}
      [] OTHER           -> 0..(CHANNEL_COUNT_714 - 1)

\* C23: with a preset adapted from a shipped preset, whatever mix_to_714 adds
\* of vocals outside FC, of drums outside FL/FR/LFE and of other outside SL/SR
\* has a gain below 20 % and went through a decorrelator.
C23_CrossFeedSmallAndDecorrelated ==
    (mpc # "idle" /\ [f \in GainFields |-> preset[f]] \in AdaptedGains) =>
        \A i \in 1..Len(added) :
            (added[i].op = "add" /\ added[i].ch \notin PrimaryGroup(added[i].stem))
            => (added[i].gain < 200 /\ added[i].decorrelated)

\* The order of the claim: what is added, stem by stem and channel by
\* channel (the gated additions only when their gate is open), then the two
\* finishing operations.
C25_Order(p) ==
    << <<"add", "vocals", CH_FC>>, <<"add", "vocals", CH_FL>>,
       <<"add", "vocals", CH_FR>>,
       <<"add", "bass", CH_LFE>>, <<"add", "bass", CH_FC>>,
       <<"add", "drums", CH_LFE>>, <<"add", "drums", CH_FL>>,
       <<"add", "drums", CH_FR>> >>
    \o (IF p.drum_height_bleed > 1
        THEN << <<"add", "drums", CH_TFL>>, <<"add", "drums", CH_TFR>> >>
        ELSE <<>>)
    \o << <<"add", "other", CH_SL>>, <<"add", "other", CH_SR>>,
          <<"add", "other", CH_BL>>, <<"add", "other", CH_BR>> >>
    \o (IF p.other_height_gain > 1
        THEN << <<"add", "other", CH_TFL>>, <<"add", "other", CH_TFR>>,
                <<"add", "other", CH_TBL>>, <<"add", "other", CH_TBR>> >>
        ELSE <<>>)
    \o (IF p.other_front_bleed > 1
        THEN << <<"add", "other", CH_FL>>, <<"add", "other", CH_FR>> >>
        ELSE <<>>)
    \o << <<"soft_clip", "all", -1>>, <<"peak_normalize", "all", -1>> >>

C25_Done == [i \in 1..Len(added) |-> <<added[i].op, added[i].stem, added[i].ch>>]

\* The buffer with every contribution added, before the finishing operations.
C25_Summed ==
    RouteOther(stems, preset, xo_lfe, xo_height, decorr,
        RouteDrums(stems, preset, xo_lfe, xo_height, decorr,
            RouteBass(stems, preset, xo_lfe,
                RouteVocals(stems, preset, xo_lfe, decorr, MixAlloc(stems)))))

C25_State ==
    mpc # "idle" =>
        LET order == C25_Order(preset)
            n == Len(order)
        IN  /\ Len(added) <= n
            /\ C25_Done = SubSeq(order, 1, Len(added))
            /\ mpc \in {"vocals", "bass", "drums", "other"} => Len(added) < n - 2
            /\ mpc = "clip" => (Len(added) = n - 2 /\ output = C25_Summed)
            /\ mpc = "normalize" => Len(added) = n - 1
            /\ mpc \in {"returned", "raised"} => Len(added) = n
            /\ mpc = "returned" =>
                   /\ ret.output = output
                   /\ output = peak_normalize(soft_clip(C25_Summed, 950),
                                              preset.target_peak_dbfs)

\* Within a call the record only grows, and once the call has returned the
\* buffer is left alone until another call begins.
C25_Step ==
    /\ (mpc # "idle" /\ mpc' # "vocals") =>
           (Len(added') >= Len(added) /\ SubSeq(added', 1, Len(added)) = added)
    /\ mpc = "returned" => mpc' = "vocals"

\* C25: mix_to_714 adds its contributions in one fixed order (vocals FC, FL,
\* FR; bass LFE, FC; drums LFE, FL, FR, TFL, TFR; other SL, SR, BL, BR,
\* heights, front bleed), then runs soft_clip(0.95) once and
\* peak_normalize(target_peak_dbfs) once, and returns the buffer; nothing is
\* added after normalization.
C25_FixedOrder == []C25_State /\ [][C25_Step]_vars

\* A returned call with every gate open whose sums went over the soft-clip
\* threshold.
C25_Witness ==
    /\ mpc = "returned"
    /\ Len(added) = 22
    /\ Len(stems.vocals[0]) = MaxLen
    /\ soft_clip(C25_Summed, 950) # C25_Summed
    /\ added[21].op = "soft_clip"
    /\ added[22].op = "peak_normalize"

-----------------------------------------------------------------------------
(* Claim about the spectrum of a decorrelated signal (checked under SpecDsp)*)

\* 2 cos(2 pi j / n), an integer for the lengths n <= 4.
TwoCos(n, j) ==
    CASE j % n = 0               -> 2
      [] n = 2                   -> -2
      [] n = 3                   -> -1
      [] n = 4 /\ j % n = 2      -> -2
      [] OTHER                   -> 0

RECURSIVE FloorSqrt(_)
FloorSqrt(n) ==
    IF n < 2 THEN n
    ELSE LET s == 2 * FloorSqrt(n \div 4)
         IN  IF (s + 1) * (s + 1) <= n THEN s + 1 ELSE s

\* |FFT(x)[k]|, from |X_k|^2 = sum over i, j of x_i x_j cos(2 pi k (i - j) / n).
FftMagnitude(x, k) ==
    LET n == Len(x)
        twice == SeqSum([m \in 1..(n * n) |->
                    LET i == ((m - 1) \div n) + 1
                        j == ((m - 1) % n) + 1
                    IN  x[i] * x[j] * TwoCos(n, k * (n + i - j))])
    IN  FloorSqrt(twice \div 2)

\* C24: for a mono x and a decorrelator d, every FFT bin of d.process(x) has
\* the magnitude of the same bin of x (here within 0.01 of full scale, which
\* covers the rounding of the model).
C24_MagnitudePreserved ==
    dop = "decorrelate" =>
        \A k \in 0..(din.n - 1) :
            Abs(FftMagnitude(dout, k) - FftMagnitude(din.x, k)) <= 10

-----------------------------------------------------------------------------
(* Claim about the taps of a Crossover (checked under SpecDsp)              *)

\* C26: a Crossover built for a request of num_taps >= 1 has an odd num_taps
\* (an even request plus one, an odd request as it is), group_delay =
\* (num_taps - 1) / 2, and highpass taps that are the negated lowpass taps
\* with 1.0 (12 twelfths) added at index group_delay, so that the two tap
\* vectors sum to a unit impulse at group_delay.
C26_ComplementaryTaps ==
    dop = "crossover" =>
        LET xo == dout.xo
            c  == xo.group_delay + 1
        IN  /\ xo.num_taps % 2 = 1
            /\ xo.num_taps = IF din.num_taps % 2 = 0 THEN din.num_taps + 1
                             ELSE din.num_taps
            /\ 2 * xo.group_delay = xo.num_taps - 1
            /\ Len(xo.lp) = xo.num_taps
            /\ Len(xo.hp) = xo.num_taps
            /\ \A k \in 1..xo.num_taps :
                 /\ xo.hp[k] = (IF k = c THEN 12 ELSE 0) - xo.lp[k]
                 /\ xo.lp[k] + xo.hp[k] = IF k = c THEN 12 ELSE 0

\* An even request (6 taps) becomes 7 taps with the centre at index 3; the
\* highpass has negative side taps and a raised centre.
C26_Witness ==
    /\ dop = "crossover"
    /\ din.num_taps = 6
    /\ dout.xo.num_taps = 7
    /\ dout.xo.group_delay = 3
    /\ dout.xo.lp[3] > 0
    /\ dout.xo.hp[3] = -dout.xo.lp[3]
    /\ dout.xo.hp[4] = 12 - dout.xo.lp[4]

-----------------------------------------------------------------------------
(* Claim about the description (checked under SpecAnalyse)                  *)

\* C27: the description analyse returns is four labels in the order
\* brightness, bass, transients, width, each a function of one measurement:
\* bright above 3000 Hz, warm below 1500 Hz, else balanced; bass-heavy above
\* 0.35, light-bass below 0.15, else moderate-bass; transient-rich above
\* 0.15, else smooth; wide-stereo above 0.4, narrow below 0.15, else
\* moderate-width.
C27_Description ==
    dop = "analyse" =>
        LET c == dout.spectral_centroid_hz
            b == dout.bass_energy_ratio
            t == dout.transient_density
            w == dout.stereo_width
            d == dout.description
        IN  /\ Len(d) = 4
            /\ d[1] = CASE c > 3000 -> "bright" [] c < 1500 -> "warm"
                        [] OTHER -> "balanced"
            /\ d[2] = CASE b > 35 -> "bass-heavy" [] b < 15 -> "light-bass"
                        [] OTHER -> "moderate-bass"
            /\ d[3] = CASE t > 15 -> "transient-rich" [] OTHER -> "smooth"
            /\ d[4] = CASE ~w.nan /\ w.val > 40 -> "wide-stereo"
                        [] ~w.nan /\ w.val < 15 -> "narrow"
                        [] OTHER -> "moderate-width"

\* Measurements on the thresholds of brightness and bass.
C27_Witness ==
    /\ dop = "analyse"
    /\ dout.spectral_centroid_hz = 3000
    /\ dout.bass_energy_ratio = 35
    /\ dout.description = <<"balanced", "moderate-bass", "smooth", "wide-stereo">>

\* The other labels.
C27_WitnessOther ==
    /\ dop = "analyse"
    /\ dout.description = <<"bright", "light-bass", "transient-rich", "narrow">>

-----------------------------------------------------------------------------
(* gui.py: the Start Conversion button and the worker thread.  The handlers *)
(* of the Tk main loop run one at a time; the steps of a worker thread      *)
(* interleave with them.                                                    *)

\* Worker threads the model lets the user start.
MaxConversions == 3

\* _select_file / _select_folder with a path chosen in the dialog: the
\* button is set to normal, whatever is going on.
SelectPath ==
    /\ btn_convert' = "normal"
    /\ UNCHANGED <<processing, threads, after_queue>>
    /\ UNCHANGED notGui

\* _set_ui_enabled(enabled), as far as the button goes
set_ui_enabled(enabled) == IF enabled THEN "normal" ELSE "disabled"

\* A click on the button (a disabled button does not call its command):
\* _start_conversion.
start_conversion ==
    /\ btn_convert = "normal"
    /\ Len(threads) < MaxConversions
    /\ IF processing
       THEN UNCHANGED guiVars
       ELSE /\ processing' = TRUE
            /\ btn_convert' = set_ui_enabled(FALSE)
            /\ threads' = Append(threads, [pc |-> "try", outcome |-> "none"])
            /\ UNCHANGED after_queue
    /\ UNCHANGED notGui

\* _run_conversion, the try block: the conversion runs to its end or raises;
\* either way _update_progress posts two callbacks.
WorkerTry(i, outcome) ==
    /\ threads[i].pc = "try"
    /\ threads' = [threads EXCEPT ![i] = [pc |-> "finally", outcome |-> outcome]]
    /\ after_queue' = after_queue \o <<"progress_bar", "lbl_progress">>
    /\ UNCHANGED <<processing, btn_convert>>
    /\ UNCHANGED notGui

\* finally: self._processing = False
WorkerClear(i) ==
    /\ threads[i].pc = "finally"
    /\ processing' = FALSE
    /\ threads' = [threads EXCEPT ![i].pc = "after"]
    /\ UNCHANGED <<btn_convert, after_queue>>
    /\ UNCHANGED notGui

\* finally: self.after(0, lambda: self._set_ui_enabled(True)); the thread
\* ends.
WorkerPost(i) ==
    /\ threads[i].pc = "after"
    /\ after_queue' = Append(after_queue, "set_ui_enabled")
    /\ threads' = [threads EXCEPT ![i].pc = "ended"]
    /\ UNCHANGED <<processing, btn_convert>>
    /\ UNCHANGED notGui

\* The main loop runs the oldest posted callback.
RunAfter ==
    /\ after_queue # <<>>
    /\ after_queue' = Tail(after_queue)
    /\ btn_convert' = IF Head(after_queue) = "set_ui_enabled"
                      THEN set_ui_enabled(TRUE) ELSE btn_convert
    /\ UNCHANGED <<processing, threads>>
    /\ UNCHANGED notGui

GuiInit == AdaptIdle /\ DspIdle /\ MixIdle /\ RunIdle /\ GuiIdle /\ IoIdle

GuiNext ==
    \/ SelectPath
    \/ start_conversion
    \/ \E i \in 1..Len(threads), o \in {"done", "error"} : WorkerTry(i, o)
    \/ \E i \in 1..Len(threads) : WorkerClear(i)
    \/ \E i \in 1..Len(threads) : WorkerPost(i)
    \/ RunAfter

SpecGui == GuiInit /\ [][GuiNext]_vars

\* The worker threads that have not ended.
Workers == {i \in 1..Len(threads) : threads[i].pc # "ended"}

\* C28: at most one conversion worker thread exists at any time, and the
\* button is only live while no worker exists.
C28_SingleWorker == Cardinality(Workers) <= 1

-----------------------------------------------------------------------------
(* separator.py separate, encoder.py encode_714 / encode_51 /              *)
(* save_wav_master as process_file calls them on one track: the temporary  *)
(* directories they make and remove, the arrays they read and allocate,    *)
(* the files they write.  A call that raises ends the track.               *)

IoOps == {"separate", "encode_714", "encode_51", "save_wav_master"}

\* The 7.1.4 buffers mix_to_714 hands over: empty, silent, loud.
IoBuffers == {HotBuffer(n, CH_FL, a1, CH_TBL, a2) : n \in 0..MaxLen, a1 \in {0, 1000}, a2 \in {0, 800}}

\* The first statement of each operation that the model steps through.
IoEntry(op) == IF op = "encode_51" THEN "downmix" ELSE IF op = "save_wav_master" THEN "write" ELSE "mkdtemp"

\* The operations that have been called on this track.
IoCalled == {finished[k].op : k \in 1..Len(finished)}

\* process_file calls an operation: separate first, the encoders once the
\* mix exists, no further call after one has raised.
IoCall(op) ==
    /\ frame.pc = "idle"
    /\ op \notin IoCalled
    /\ \A k \in 1..Len(finished) : finished[k].left.kind = "return"
    /\ IF op = "separate" THEN arrays = <<>> ELSE arrays # <<>>
    /\ frame' = [NoFrame EXCEPT !.op = op, !.pc = IoEntry(op), !.audio = IF op = "separate" THEN 0 ELSE 1]
    /\ UNCHANGED <<arrays, given, tmp_dirs, finished>>
    /\ UNCHANGED notIo

\* mix_714 = mix_to_714(stems, preset): the buffer the encoders are given.
IoMix(buf) ==
    /\ frame.pc = "idle"
    /\ arrays = <<>>
    /\ IoCalled = {"separate"}
    /\ finished[1].left.kind = "return"
    /\ arrays' = <<buf>>
    /\ given' = buf
    /\ UNCHANGED <<tmp_dirs, frame, finished>>
    /\ UNCHANGED notIo

\* The try block ends with `return value`: the finally clause runs next.
IoReturn(value) == [frame EXCEPT !.pc = "finally", !.body = Pending("return", value), !.pending = Pending("return", value)]

\* A statement of the try block raises: the finally clause runs next.
IoRaise_unwound(error) == [frame EXCEPT !.pc = "exit", !.body = Pending("raise", error), !.pending = Pending("raise", error)]

IoRaise(error) == [frame EXCEPT !.pc = "finally", !.body = Pending("raise", error), !.pending = Pending("raise", error)]

\* A statement outside any try block raises: the call is left at once.
IoLeave(kind, value) == [frame EXCEPT !.pc = "exit", !.body = Pending(kind, value), !.pending = Pending(kind, value)]

\* tempfile.mkdtemp(...), the statement before the try block.
IoMkdtemp(ok) ==
    /\ frame.pc = "mkdtemp"
    /\ IF ok
       THEN /\ tmp_dirs' = Append(tmp_dirs, [by |-> frame.op, exists |-> TRUE, rmtree |-> "none"])
            /\ frame' = [frame EXCEPT !.dir = Len(tmp_dirs) + 1, !.pc = IF frame.op = "separate" THEN "demucs" ELSE "write"]
       ELSE /\ frame' = IoLeave("raise", "OSError")
            /\ UNCHANGED tmp_dirs
    /\ UNCHANGED <<arrays, given, finished>>
    /\ UNCHANGED notIo

\* separate, the try block: the Demucs child process, the search for the
\* stem directory and the four stem files, the reads.
DemucsOutcomes == {"ok", "exit_code", "no_stem_dir", "missing_stem", "read_error"}

IoDemucs(outcome) ==
    /\ frame.pc = "demucs"
    /\ frame' = CASE outcome = "ok" -> IoReturn("StemData")
                  [] outcome = "exit_code" -> IoRaise("RuntimeError")
                  [] outcome = "read_error" -> IoRaise("LibsndfileError")
                  [] OTHER -> IoRaise("FileNotFoundError")
    /\ UNCHANGED <<arrays, given, tmp_dirs, finished>>
    /\ UNCHANGED notIo

\* out = np.zeros((n, 6)); out[:, i] = ...; out = peak_normalize(out, -1.0):
\* a new array for out and, unless out is silent and returned as it is,
\* another for the normalised copy; the result is the last array.
heap_downmix_view(h, ref) == Append([h EXCEPT ![ref] = [ch \in DOMAIN @ |-> IF ch < CHANNEL_COUNT_51 THEN DownmixMatrix(h[ref])[ch] ELSE @[ch]]], downmix_714_to_51(h[ref]))

heap_downmix(h, ref) == IF np_max_abs(DownmixMatrix(h[ref])) = 0 THEN Append(h, DownmixMatrix(h[ref])) ELSE h \o <<DownmixMatrix(h[ref]), downmix_714_to_51(h[ref])>>

\* encode_51: audio_51 = downmix_714_to_51(audio_714), before mkdtemp.
IoDownmix ==
    /\ frame.pc = "downmix"
    /\ IF np_max_raises(DownmixMatrix(arrays[frame.audio]))
       THEN /\ frame' = IoLeave("raise", "ValueError")
            /\ UNCHANGED arrays
       ELSE /\ arrays' = heap_downmix(arrays, frame.audio)
            /\ frame' = [frame EXCEPT !.data = Len(arrays'), !.pc = "mkdtemp"]
    /\ UNCHANGED <<given, tmp_dirs, finished>>
    /\ UNCHANGED notIo

\* sf.write(path, data, sample_rate, subtype): reads data, writes the file.
sf_write(h, ref) == File(h[ref])

\* The sf.write statement of each operation: to output_path in
\* save_wav_master (no try block there), to tmp_wav in the encoders.
IoWrite(ok) ==
    /\ frame.pc = "write"
    /\ frame' = CASE frame.op = "save_wav_master" /\ ok -> [IoLeave("return", "output_path") EXCEPT !.out = sf_write(arrays, frame.audio)]
                  [] frame.op = "save_wav_master" /\ ~ok -> IoLeave("raise", "LibsndfileError")
                  [] frame.op = "encode_714" /\ ok -> [frame EXCEPT !.tmp_wav = sf_write(arrays, frame.audio), !.pc = "ffmpeg"]
                  [] frame.op = "encode_51" /\ ok -> [frame EXCEPT !.tmp_wav = sf_write(arrays, frame.data), !.pc = "ffmpeg"]
                  [] OTHER -> IoRaise("LibsndfileError")
    /\ UNCHANGED <<arrays, given, tmp_dirs, finished>>
    /\ UNCHANGED notIo

\* subprocess.run(ffmpeg ...): exit code 0; non-zero with a fallback that
\* works (copy2 / second command); non-zero with a fallback that fails;
\* TimeoutExpired.
FfmpegOutcomes == {"ok", "fallback", "failed", "timeout"}

IoFfmpeg(outcome) ==
    /\ frame.pc = "ffmpeg"
    /\ frame' = CASE outcome \in {"ok", "fallback"} -> [IoReturn("output_path") EXCEPT !.out = frame.tmp_wav]
                  [] outcome = "timeout" -> IoRaise("TimeoutExpired")
                  [] outcome = "failed" /\ frame.op = "encode_714" -> IoRaise("OSError")
                  [] OTHER -> IoRaise("RuntimeError")
    /\ UNCHANGED <<arrays, given, tmp_dirs, finished>>
    /\ UNCHANGED notIo

\* finally: if os.path.exists(dir): try: shutil.rmtree(dir) except OSError:
\* pass (separate logs a warning).  What the call leaves with stays.
IoFinally(rm) ==
    /\ frame.pc = "finally"
    /\ tmp_dirs' = IF tmp_dirs[frame.dir].exists
                   THEN [tmp_dirs EXCEPT ![frame.dir].rmtree = rm, ![frame.dir].exists = (rm # "ok")]
                   ELSE tmp_dirs
    /\ frame' = [frame EXCEPT !.pc = "exit"]
    /\ UNCHANGED <<arrays, given, finished>>
    /\ UNCHANGED notIo

\* The call returns or raises to process_file.
IoExit ==
    /\ frame.pc = "exit"
    /\ finished' = Append(finished, [op |-> frame.op, dir |-> frame.dir, body |-> frame.body, left |-> frame.pending, out |-> frame.out])
    /\ frame' = NoFrame
    /\ UNCHANGED <<arrays, given, tmp_dirs>>
    /\ UNCHANGED notIo

IoInit == AdaptIdle /\ DspIdle /\ MixIdle /\ RunIdle /\ GuiIdle /\ IoIdle

IoNext ==
    \/ \E op \in IoOps : IoCall(op)
    \/ \E buf \in IoBuffers : IoMix(buf)
    \/ \E ok \in BOOLEAN : IoMkdtemp(ok)
    \/ \E outcome \in DemucsOutcomes : IoDemucs(outcome)
    \/ IoDownmix
    \/ \E ok \in BOOLEAN : IoWrite(ok)
    \/ \E outcome \in FfmpegOutcomes : IoFfmpeg(outcome)
    \/ \E rm \in {"ok", "OSError"} : IoFinally(rm)
    \/ IoExit

SpecIo == IoInit /\ [][IoNext]_vars

\* C29: every temporary directory made by separate, encode_714 or encode_51
\* has had its removal attempted once the call has returned or raised, on
\* every path, and the call leaves with what its try block ended with,
\* whether or not the removal worked.
C29_CleanupAttempted ==
    /\ \A d \in 1..Len(tmp_dirs) : tmp_dirs[d].rmtree = "none" => frame.dir = d /\ frame.pc \notin {"idle", "exit"}
    /\ \A k \in 1..Len(finished) : finished[k].left = finished[k].body /\ finished[k].left.kind \in {"return", "raise"}
    /\ frame.pc = "exit" => frame.pending = frame.body

\* A call failed in its try block, the removal of its directory failed
\* too, and the call raised its own error.
C29_Witness ==
    \E k \in 1..Len(finished) :
        /\ finished[k].op = "encode_51"
        /\ finished[k].left = Pending("raise", "RuntimeError")
        /\ tmp_dirs[finished[k].dir].rmtree = "OSError"
        /\ tmp_dirs[1] = [by |-> "separate", exists |-> FALSE, rmtree |-> "ok"]

\* What each operation's output file must hold, given the mix buffer.
IoExpected(op) == IF op = "encode_51" THEN downmix_714_to_51(given) ELSE given

\* C30: the 7.1.4 buffer handed to downmix_714_to_51 and to the encoders
\* keeps the value mix_to_714 returned, and every output written derives
\* from that value, whatever the order of the encoder calls.
C30_MixBufferUntouched ==
    /\ arrays # <<>> => arrays[1] = given
    /\ \A k \in 1..Len(finished) : finished[k].out.some => finished[k].out.data = IoExpected(finished[k].op)
    /\ frame.out.some => frame.out.data = IoExpected(frame.op)

\* All three outputs written from a loud buffer, the 5.1 downmix before the
\* 7.1.4 file.
C30_Witness ==
    /\ Len(finished) = 4
    /\ <<finished[2].op, finished[3].op, finished[4].op>> = <<"encode_51", "save_wav_master", "encode_714">>
    /\ \A k \in 2..4 : finished[k].out.some
    /\ given = HotBuffer(MaxLen, CH_FL, 1000, CH_TBL, 800)

====
